---- MODULE Spec2Model ----
(***************************************************************************)
(* Request-orchestration pipeline of the CareerPredictor worker.           *)
(*                                                                         *)
(* The repository holds four revisions of the worker, all modelled here:   *)
(*   "combined"  worker/src/index.ts 1-268    crawl -> extract -> search,  *)
(*               one request shape, no deadlines                           *)
(*   "modes"     worker/src/index.ts 270-858  analyze / match modes, every *)
(*               external call behind fetchWithTimeout / withTimeout       *)
(*   "lean"      worker/src/index.ts 860-1254 analyze / match modes and    *)
(*               deadlines, with the crawler and the extractor of          *)
(*               "combined": first result's text, one parsing strategy     *)
(*   "webset"    unnamed/part_001             crawl -> extract -> webset   *)
(*               job (create, poll, items), no deadlines                   *)
(* One behaviour handles one request: Fetch runs the handler up to its     *)
(* first suspension point, every later action is the settling of the call  *)
(* in flight (or the firing of its timer) followed by the handler's code   *)
(* up to the next suspension point.                                        *)
(***************************************************************************)
EXTENDS Integers, Sequences, FiniteSets, TLC

VARIABLES build, env, request, pc, ops, markdown, criteria, job, responses, received,
          parked, log, ui

vars == <<build, env, request, pc, ops, markdown, criteria, job, responses, received, parked,
          log, ui>>

Builds == {"combined", "modes", "lean", "webset"}

\* the revisions that tell analyze requests from match requests
ModeBuilds == {"modes", "lean"}

(***************************************************************************)
(* Program constants.                                                      *)
(***************************************************************************)
MAX_POINTS_OF_INTEREST == 10
MAX_SELECTED_POINTS == 3
EXA_REQUEST_TIMEOUT_MS == 30000
AI_REQUEST_TIMEOUT_MS == 60000
CLADO_REQUEST_TIMEOUT_MS == 30000

\* the same three constants as the "lean" revision sets them
LEAN_EXA_REQUEST_TIMEOUT_MS == 20000
LEAN_AI_REQUEST_TIMEOUT_MS == 45000
LEAN_CLADO_REQUEST_TIMEOUT_MS == 20000

(***************************************************************************)
(* Bounds of the model.                                                    *)
(***************************************************************************)
MaxSelected == 4
MaxArrayLen == 2

(***************************************************************************)
(* JSON values as the handler sees them.  A string is known by what the    *)
(* code asks of it: absent (undefined, null, or any other falsy non-string)*)
(* "empty" (""), "blank" (whitespace only), "text" (has a non-whitespace   *)
(* character) and "number" (a truthy value that is not a string).          *)
(***************************************************************************)
StringKinds == {"absent", "empty", "blank", "text", "number"}

Truthy(s) == s \in {"blank", "text", "number"}

IsString(s) == s \in {"empty", "blank", "text"}

\* s.trim().length > 0, for a string s
TrimNonEmpty(s) == s = "text"

\* An array entry: an object with description and type, JSON null, or a primitive.
\* `at` is the entry's position in the text or array it came from and stands
\* for its content: two entries are the same entry iff they agree on `at`.
Pt(d, t, i) == [k |-> "object", description |-> d, type |-> t, at |-> i]

NullEntry(i) == [k |-> "null", description |-> "absent", type |-> "absent", at |-> i]

PrimEntry(i) == [k |-> "prim", description |-> "absent", type |-> "absent", at |-> i]


(***************************************************************************)
(* Requests.  A body is what request.json() makes of it: "invalid" (it     *)
(* throws), JSON null, a primitive, or an object with the fields the       *)
(* handlers read.                                                          *)
(***************************************************************************)
Array(items) == [k |-> "array", items |-> items]

NoArray(kind) == [k |-> kind, items |-> <<>>]

GoodPoints(n) == [i \in 1..n |-> Pt("text", "enum", i)]

\* selectedPoints as sent: missing, not an array, arrays of 0..MaxSelected
\* well-formed points, and arrays of exactly three with one malformed entry
SelectedPointsValues ==
    {NoArray("absent"), NoArray("nonarray")}
    \cup {Array(GoodPoints(n)) : n \in 0..MaxSelected}
    \cup {Array([GoodPoints(3) EXCEPT ![2] = e]) :
             e \in {Pt("absent", "enum", 2), Pt("empty", "enum", 2), NullEntry(2), PrimEntry(2)}}

ObjectBody(m, u, g, sp) ==
    [json |-> "object", mode |-> m, linkedinUrl |-> u, careerGoal |-> g, selectedPoints |-> sp]

NonObjectBody(j) ==
    [json |-> j, mode |-> "absent", linkedinUrl |-> "absent", careerGoal |-> "absent",
     selectedPoints |-> NoArray("absent")]

MatchBodies ==
    {ObjectBody("match", u, g, sp) :
        u \in {"absent", "text"}, g \in StringKinds, sp \in SelectedPointsValues}

\* bodies that are not match requests: no mode, "analyze", or any other mode;
\* those without mode also with the fields of a match request
AnalyzeBodies ==
    {ObjectBody(m, u, "absent", NoArray("absent")) :
        m \in {"absent", "analyze", "other"}, u \in {"absent", "empty", "text"}}
    \cup {ObjectBody("absent", u, "text", Array(GoodPoints(3))) : u \in {"absent", "empty", "text"}}

\* the bodies sent to the revisions that know no mode: they read linkedinUrl and careerGoal
PlainBodies ==
    {ObjectBody(m, u, g, NoArray("absent")) :
        m \in {"absent", "match"}, u \in {"absent", "empty", "text"}, g \in StringKinds}

NonObjectBodies == {NonObjectBody(j) : j \in {"invalid", "null", "prim"}}

BodiesFor(b) ==
    NonObjectBodies \cup (IF b \in ModeBuilds THEN MatchBodies \cup AnalyzeBodies ELSE PlainBodies)

Methods == {"POST", "OPTIONS", "GET", "DELETE"}

Paths == {"/", "/health", "/test"}

RequestsFor(b) ==
    {[method |-> "POST", path |-> p, body |-> bd] : p \in {"/"}, bd \in BodiesFor(b)}
    \cup {[method |-> m, path |-> p, body |-> NonObjectBody("invalid")] :
             m \in Methods \ {"POST"}, p \in Paths}
    \cup {[method |-> "POST", path |-> "/health", body |-> NonObjectBody("invalid")]}

NoRequest == [method |-> "none", path |-> "none", body |-> NonObjectBody("invalid")]

\* env bindings: TRUE when the secret or binding is set
Envs == [EXA_API_KEY : BOOLEAN, AI : BOOLEAN, CLADO_API_KEY : BOOLEAN]

\* "modes" checks EXA_API_KEY and AI, "modes" and "lean" the search key
EnvsFor(b) ==
    IF b = "modes" THEN Envs
    ELSE IF b = "lean" THEN {e \in Envs : e.EXA_API_KEY /\ e.AI}
    ELSE {[EXA_API_KEY |-> TRUE, AI |-> TRUE, CLADO_API_KEY |-> TRUE]}

(***************************************************************************)
(* Responses.  An error message is the sequence of its parts, so that a    *)
(* wrapped message contains the parts of the message it wraps.             *)
(***************************************************************************)
corsHeaders == [cors |-> TRUE, contentType |-> "none"]

JsonHeaders == [corsHeaders EXCEPT !.contentType = "application/json"]

Response(status, headers, kind, error, points, profiles) ==
    [status |-> status, headers |-> headers,
     body |-> [k |-> kind, error |-> error, points |-> points, profiles |-> profiles]]

ErrorResponse(status, msg) == Response(status, JsonHeaders, "error", msg, <<>>, <<>>)

CriteriaResponse(points) == Response(200, JsonHeaders, "criteria", <<>>, points, <<>>)

MatchResponse(profiles) == Response(200, JsonHeaders, "matchedProfiles", <<>>, <<>>, profiles)

\* `${prefix}${error.message}`
Wrap(prefix, msg) == <<prefix>> \o msg

Contains(msg, part) == \E i \in 1..Len(msg) : msg[i] = part

(***************************************************************************)
(* External calls.  ops is the log of the calls the request has issued, in *)
(* the order of issue; a call is in flight while its state is "pending".   *)
(***************************************************************************)
CallNames == {"crawl", "inference", "search", "create", "poll", "items"}

\* a bare fetch() or ai.run(): no timer, nothing to cancel it with
BareCall(name) ==
    [name |-> name, guard |-> "none", timer |-> "none", signal |-> "none",
     state |-> "pending", result |-> "none", timeoutMs |-> 0, message |-> "none"]

\* fetchWithTimeout: a controller whose signal the fetch carries, and a timer
\* that aborts it
GuardedFetch(name, timeoutMs, timeoutMessage) ==
    [name |-> name, guard |-> "fetchWithTimeout", timer |-> "armed", signal |-> "clear",
     state |-> "pending", result |-> "none", timeoutMs |-> timeoutMs, message |-> timeoutMessage]

\* withTimeout: the promise of a call already started, raced against a timer
\* that rejects; the call is handed no signal
GuardedRace(name, timeoutMs, timeoutMessage) ==
    [name |-> name, guard |-> "withTimeout", timer |-> "armed", signal |-> "none",
     state |-> "pending", result |-> "none", timeoutMs |-> timeoutMs, message |-> timeoutMessage]

\* SettleOp without the `finally`: the timer stays armed
SettleOpKeepTimer(op, how, result) == [op EXCEPT !.state = how, !.result = result]

\* the call settles before the timer fires; `finally` clears the timer.
\* The result of a call is "ok" (for a fetch: a 2xx answer), "http-error"
\* (any other status), "transport-error" (it rejects) or "timeout".
SettleOp(op, how, result) ==
    [op EXCEPT !.state = how, !.result = result,
               !.timer = IF op.timer = "armed" THEN "cleared" ELSE op.timer]

\* the timer of fetchWithTimeout fires: controller.abort(), the fetch rejects
\* with an AbortError
AbortOp(op) ==
    [op EXCEPT !.timer = "fired", !.signal = "aborted", !.state = "aborted", !.result = "timeout"]

\* timeoutError with the translation of the expiry lost: the transport's own
\* abort message comes through
timeoutErrorGeneric(op) == <<"The operation was aborted">>

\* the error a guard throws when its timer fires first
timeoutError(op) == <<op.message>>

\* the timer of withTimeout fires: the race is lost, the promise stays pending
OutrunOp(op) == [op EXCEPT !.timer = "fired", !.result = "timeout"]

InFlight == {i \in 1..Len(ops) : ops[i].state = "pending"}

Issued(name) == {i \in 1..Len(ops) : ops[i].name = name}

CrawlCall == GuardedFetch("crawl", EXA_REQUEST_TIMEOUT_MS, "Exa API request timed out after 30 seconds")

InferenceCall == GuardedRace("inference", AI_REQUEST_TIMEOUT_MS, "Workers AI request timed out")

SearchCall == GuardedFetch("search", CLADO_REQUEST_TIMEOUT_MS, "Clado API request timed out")

\* the guarded calls of the "lean" revision
LeanCrawlCall == GuardedFetch("crawl", LEAN_EXA_REQUEST_TIMEOUT_MS, "Exa API request timed out")

LeanInferenceCall ==
    GuardedRace("inference", LEAN_AI_REQUEST_TIMEOUT_MS, "Workers AI request timed out")

LeanSearchCall ==
    GuardedFetch("search", LEAN_CLADO_REQUEST_TIMEOUT_MS, "Clado API request timed out")

(***************************************************************************)
(* The dispatcher of the "modes" revision, up to its first external call.  *)
(* The outcome is a response, or the call to issue next.                   *)
(***************************************************************************)
Outcome(act, response) == [act |-> act, response |-> response]

Go(act) == Outcome(act, ErrorResponse(0, <<>>))

Respond(response) == Outcome("respond", response)

\* findMatchingProfiles of the "modes" revision up to its fetch: the query is
\* built from every point's description, then the key is checked
\* findMatchingProfilesStart that has the profile crawled before the search
findMatchingProfilesStartCrawl(points, e) ==
    IF \E i \in 1..Len(points) : points[i].k = "null"
    THEN Respond(ErrorResponse(500, <<"TypeError: cannot read properties of null">>))
    ELSE IF ~e.CLADO_API_KEY
    THEN Respond(ErrorResponse(500, <<"Clado API key is missing">>))
    ELSE Go("crawl")

findMatchingProfilesStart(points, e) ==
    IF \E i \in 1..Len(points) : points[i].k = "null"
    THEN Respond(ErrorResponse(500, <<"TypeError: cannot read properties of null">>))
    ELSE IF ~e.CLADO_API_KEY
    THEN Respond(ErrorResponse(500, <<"Clado API key is missing">>))
    ELSE Go("search")

\* matchBranch without the trim: a whitespace-only goal goes through
matchBranchNoTrim(body, e) ==
    LET careerGoal == body.careerGoal
        selectedPoints == body.selectedPoints
    IN  IF ~Truthy(careerGoal)
        THEN Respond(ErrorResponse(400, <<"Missing career goal for match request">>))
        ELSE IF selectedPoints.k # "array" \/ Len(selectedPoints.items) = 0
        THEN Respond(ErrorResponse(400, <<"Please provide up to 3 selected experiences">>))
        ELSE IF Len(selectedPoints.items) # MAX_SELECTED_POINTS
        THEN Respond(ErrorResponse(400, <<"Exactly 3 experiences are required to find matches">>))
        ELSE findMatchingProfilesStart(SubSeq(selectedPoints.items, 1, MAX_SELECTED_POINTS), e)

\* the match branch: careerGoal, then selectedPoints, then the search
matchBranch(body, e) ==
    LET careerGoal == body.careerGoal
        selectedPoints == body.selectedPoints
    IN  IF ~Truthy(careerGoal)
        THEN Respond(ErrorResponse(400, <<"Missing career goal for match request">>))
        ELSE IF ~IsString(careerGoal)
        THEN Respond(ErrorResponse(500, <<"TypeError: careerGoal.trim is not a function">>))
        ELSE IF ~TrimNonEmpty(careerGoal)
        THEN Respond(ErrorResponse(400, <<"Missing career goal for match request">>))
        ELSE IF selectedPoints.k # "array" \/ Len(selectedPoints.items) = 0
        THEN Respond(ErrorResponse(400, <<"Please provide up to 3 selected experiences">>))
        ELSE IF Len(selectedPoints.items) # MAX_SELECTED_POINTS
        THEN Respond(ErrorResponse(400, <<"Exactly 3 experiences are required to find matches">>))
        ELSE findMatchingProfilesStart(SubSeq(selectedPoints.items, 1, MAX_SELECTED_POINTS), e)

\* analyzeBranch without the test of linkedinUrl
analyzeBranchUnvalidated(body) ==
    IF body.json = "prim"
    THEN Respond(ErrorResponse(500, <<"TypeError: cannot use 'in' operator">>))
    ELSE Go("crawl")

\* the analyze branch up to the crawl
analyzeBranch(body) ==
    IF body.json = "prim"
    THEN Respond(ErrorResponse(500, <<"TypeError: cannot use 'in' operator">>))
    ELSE IF ~Truthy(body.linkedinUrl)
    THEN Respond(ErrorResponse(400, <<"Missing linkedinUrl for profile analysis">>))
    ELSE Go("crawl")

modesFetch(req, e) ==
    IF req.method = "GET" /\ req.path = "/health"
    THEN Respond(Response(200, JsonHeaders, "health", <<>>, <<>>, <<>>))
    ELSE IF req.method = "GET" /\ req.path = "/test"
    THEN Respond(Response(200, JsonHeaders, "test", <<>>, <<>>, <<>>))
    ELSE IF req.method = "OPTIONS"
    THEN Respond(Response(200, corsHeaders, "null", <<>>, <<>>, <<>>))
    ELSE IF req.method # "POST"
    THEN Respond(Response(405, corsHeaders, "text", <<"Method not allowed">>, <<>>, <<>>))
    ELSE IF ~e.EXA_API_KEY
    THEN Respond(ErrorResponse(500, <<"EXA_API_KEY is not configured">>))
    ELSE IF ~e.AI
    THEN Respond(ErrorResponse(500, <<"AI binding is not configured">>))
    ELSE IF req.body.json = "invalid"
    THEN Respond(ErrorResponse(500, <<"SyntaxError: body is not valid JSON">>))
    ELSE IF req.body.json = "null"
    THEN Respond(ErrorResponse(500, <<"TypeError: cannot read properties of null">>))
    ELSE IF req.body.mode = "match"
    THEN matchBranch(req.body, e)
    ELSE analyzeBranch(req.body)

\* the dispatcher of the "lean" revision: no health or test endpoint, no
\* check of the bindings
leanFetch(req, e) ==
    IF req.method = "OPTIONS"
    THEN Respond(Response(200, corsHeaders, "null", <<>>, <<>>, <<>>))
    ELSE IF req.method # "POST"
    THEN Respond(Response(405, corsHeaders, "text", <<"Method not allowed">>, <<>>, <<>>))
    ELSE IF req.body.json = "invalid"
    THEN Respond(ErrorResponse(500, <<"SyntaxError: body is not valid JSON">>))
    ELSE IF req.body.json = "null"
    THEN Respond(ErrorResponse(500, <<"TypeError: cannot read properties of null">>))
    ELSE IF req.body.mode = "match"
    THEN matchBranch(req.body, e)
    ELSE analyzeBranch(req.body)

\* plainFetch that goes to the search without the crawl and the extraction
plainFetchSearchOnly(req) ==
    IF req.method = "OPTIONS"
    THEN Respond(Response(200, corsHeaders, "null", <<>>, <<>>, <<>>))
    ELSE IF req.method # "POST"
    THEN Respond(Response(405, corsHeaders, "text", <<"Method not allowed">>, <<>>, <<>>))
    ELSE IF req.body.json = "invalid"
    THEN Respond(ErrorResponse(500, <<"SyntaxError: body is not valid JSON">>))
    ELSE IF req.body.json = "null"
    THEN Respond(ErrorResponse(500, <<"TypeError: cannot destructure null">>))
    ELSE IF ~Truthy(req.body.linkedinUrl) \/ ~Truthy(req.body.careerGoal)
    THEN Respond(ErrorResponse(400, <<"Missing linkedinUrl or careerGoal">>))
    ELSE Go("search")

\* the handler of the "combined" and "webset" revisions up to the crawl: one
\* request shape, both fields required
plainFetch(req) ==
    IF req.method = "OPTIONS"
    THEN Respond(Response(200, corsHeaders, "null", <<>>, <<>>, <<>>))
    ELSE IF req.method # "POST"
    THEN Respond(Response(405, corsHeaders, "text", <<"Method not allowed">>, <<>>, <<>>))
    ELSE IF req.body.json = "invalid"
    THEN Respond(ErrorResponse(500, <<"SyntaxError: body is not valid JSON">>))
    ELSE IF req.body.json = "null"
    THEN Respond(ErrorResponse(500, <<"TypeError: cannot destructure null">>))
    ELSE IF ~Truthy(req.body.linkedinUrl) \/ ~Truthy(req.body.careerGoal)
    THEN Respond(ErrorResponse(400, <<"Missing linkedinUrl or careerGoal">>))
    ELSE Go("crawl")

(***************************************************************************)
(* The crawling service's answer.  A text is the sequence of its parts,    *)
(* each naming the field it came from and whether it is whitespace only;   *)
(* the empty text has no part.                                             *)
(***************************************************************************)
MaxResults == 2

FieldKinds == {"absent", "blank", "text"}

Text(kind, src) == IF kind = "absent" THEN <<>> ELSE <<[src |-> src, blank |-> (kind = "blank")]>>

NoText == <<>>

\* text.trim().length > 0
NonBlank(text) == \E i \in 1..Len(text) : ~text[i].blank

Result(title, text, summary) == [title |-> title, text |-> text, summary |-> summary]

\* a result with no field, with each field alone, and with a title and a
\* summary around a text, a blank text and no text
CrawlResults ==
    {Result("absent", "absent", "absent"), Result("text", "absent", "absent"),
     Result("absent", "text", "absent"), Result("absent", "blank", "absent"),
     Result("absent", "absent", "text"), Result("text", "text", "text"),
     Result("text", "blank", "text"), Result("text", "absent", "text")}

CrawlData ==
    {[context |-> c, results |-> r] :
        c \in FieldKinds,
        r \in {NoArray("absent")}
              \cup {Array(items) : items \in UNION {[1..n -> CrawlResults] : n \in 0..MaxResults}}}

UpstreamStatuses == {200, 401, 404, 429, 500}

\* what an external HTTP call comes to: a transport error (the fetch
\* rejects), or a response with a status and, when it is 2xx, its data
Ok(status) == status >= 200 /\ status <= 299

RECURSIVE Flatten(_)
\* parts.join(separator) of texts: the separators are whitespace
Flatten(texts) == IF texts = <<>> THEN <<>> ELSE Head(texts) \o Flatten(Tail(texts))

ResultField(data, i, field) ==
    Text(data.results.items[i][field], "results[" \o ToString(i) \o "]." \o field)

\* title, text and summary of one result, the truthy ones, joined by "\n"
ResultParts(data, i) ==
    ResultField(data, i, "title") \o ResultField(data, i, "text") \o ResultField(data, i, "summary")

\* primaryText with the first two sources swapped: the first result's text
\* before the context
primaryTextResultsFirst(data) ==
    LET context == Text(data.context, "context")
        n == Len(data.results.items)
    IN  IF n > 0 /\ ResultField(data, 1, "text") # <<>> /\ NonBlank(ResultField(data, 1, "text"))
        THEN ResultField(data, 1, "text")
        ELSE IF context # <<>> /\ NonBlank(context)
        THEN context
        ELSE IF data.results.k = "array" /\ n > 0
        THEN Flatten(SelectSeq([i \in 1..n |-> ResultParts(data, i)], NonBlank))
        ELSE NoText

\* crawlLinkedInProfile of the "modes" revision, from the parsed response:
\* the text chosen (NoText when there is none)
primaryText(data) ==
    LET context == Text(data.context, "context")
        n == Len(data.results.items)
    IN  IF context # <<>> /\ NonBlank(context)
        THEN context
        ELSE IF n > 0 /\ ResultField(data, 1, "text") # <<>> /\ NonBlank(ResultField(data, 1, "text"))
        THEN ResultField(data, 1, "text")
        ELSE IF data.results.k = "array" /\ n > 0
        THEN Flatten(SelectSeq([i \in 1..n |-> ResultParts(data, i)], NonBlank))
        ELSE NoText

\* crawlLinkedInProfile of the "combined" and "webset" revisions: the first
\* result's text, when truthy
firstResultText(data) ==
    IF data.results.k # "array" \/ Len(data.results.items) = 0
    THEN NoText
    ELSE ResultField(data, 1, "text")

(***************************************************************************)
(* The inference service's answer.  Its text is a sequence of tokens: the  *)
(* brackets, braces and fences the parsing strategies look for, prose, and *)
(* JSON values free of brackets.                                           *)
(*   "pt"      {"description": "...", "type": "education"}                 *)
(*   "ptX"     {"description": "...", "type": "hobby"}                     *)
(*   "blank"   {"description": "   ", "type": "skill"}                     *)
(*   "nodesc"  {"type": "skill"}                                           *)
(*   "notype"  {"description": "..."}                                      *)
(*   "numdesc" {"description": 5, "type": "skill"}                         *)
(*   "numtype" {"description": "...", "type": 5}                           *)
(*   "null"    null            "num"  a number or a string                 *)
(*   "{poi"    {"pointsOfInterest":    "{res"  {"results":                 *)
(*   "{oth"    {"data":                "}"                                 *)
(*   "w"       prose without brackets                                      *)
(*   "fence"   three backticks         "fencejson"  the same, then json     *)
(***************************************************************************)
EntryTokens == {"pt", "ptX", "blank", "nodesc", "notype", "numdesc", "numtype", "null", "num"}

WrapperTokens == {"{poi", "{res", "{oth"}

FenceTokens == {"fence", "fencejson"}

EntryOf(tok, i) ==
    CASE tok = "pt" -> Pt("text", "enum", i)
      [] tok = "ptX" -> Pt("text", "other", i)
      [] tok = "blank" -> Pt("blank", "enum", i)
      [] tok = "nodesc" -> Pt("absent", "enum", i)
      [] tok = "notype" -> Pt("text", "absent", i)
      [] tok = "numdesc" -> Pt("number", "enum", i)
      [] tok = "numtype" -> Pt("text", "number", i)
      [] tok = "null" -> NullEntry(i)
      [] OTHER -> PrimEntry(i)

\* a parsed value: ok, the index after it, its kind, and for an array (or an
\* object wrapping one) its entries; an entry that is itself an array or a
\* wrapper is an object without description or type
Parsed(ok, next, k, entry, items) ==
    [ok |-> ok, next |-> next, k |-> k, entry |-> entry, items |-> items]

ParseFailure == Parsed(FALSE, 0, "none", PrimEntry(0), <<>>)

RECURSIVE ParseValue(_, _)
RECURSIVE ParseItems(_, _, _, _)
RECURSIVE nextItem(_, _, _, _)

\* an object whose one member value is v, opened by the wrapper token at i
wrapperValue(toks, i, v) ==
    IF v.ok /\ v.next <= Len(toks) /\ toks[v.next] = "}"
    THEN Parsed(TRUE, v.next + 1,
                IF v.k = "array" THEN toks[i] ELSE "{oth",
                Pt("absent", "absent", i),
                IF v.k = "array" THEN v.items ELSE <<>>)
    ELSE ParseFailure

\* the JSON value starting at token i
ParseValue(toks, i) ==
    IF i > Len(toks) THEN ParseFailure
    ELSE IF toks[i] \in EntryTokens
    THEN Parsed(TRUE, i + 1, EntryOf(toks[i], i).k, EntryOf(toks[i], i), <<>>)
    ELSE IF toks[i] = "["
    THEN ParseItems(toks, i, i + 1, <<>>)
    ELSE IF toks[i] \in WrapperTokens
    THEN wrapperValue(toks, i, ParseValue(toks, i + 1))
    ELSE ParseFailure

\* the elements of the array opened at token open, from token j on
ParseItems(toks, open, j, acc) ==
    IF j > Len(toks) THEN ParseFailure
    ELSE IF toks[j] = "]"
    THEN Parsed(TRUE, j + 1, "array", Pt("absent", "absent", open), acc)
    ELSE nextItem(toks, open, acc, ParseValue(toks, j))

\* the array goes on after its element v
nextItem(toks, open, acc, v) ==
    IF v.ok THEN ParseItems(toks, open, v.next, Append(acc, v.entry))
    ELSE ParseFailure

\* the value v is the whole text
wholeValue(toks, v) == IF v.ok /\ v.next = Len(toks) + 1 THEN v ELSE ParseFailure

\* JSON.parse(text): the whole text is one value
JSONparse(toks) == wholeValue(toks, ParseValue(toks, 1))

Positions(toks, set) == {i \in 1..Len(toks) : toks[i] \in set}

Min(S) == CHOOSE x \in S : \A y \in S : x <= y

\* the entries of v keep their positions in the whole text
shiftItems(v, from) ==
    [v EXCEPT !.items = [i \in 1..Len(v.items) |->
                            [v.items[i] EXCEPT !.at = v.items[i].at + from - 1]]]

\* JSON.parse of the tokens from..to of the text
ParseRange(toks, from, to) == shiftItems(JSONparse(SubSeq(toks, from, to)), from)

\* responseText.match(/\[[\s\S]*?\]/): the range from the first "[" to the
\* first "]" after it
jsonMatch(toks) ==
    LET opens == Positions(toks, {"["})
        closes == {j \in Positions(toks, {"]"}) : opens # {} /\ j > Min(opens)}
    IN  IF opens = {} \/ closes = {} THEN [found |-> FALSE, from |-> 0, to |-> 0]
        ELSE [found |-> TRUE, from |-> Min(opens), to |-> Min(closes)]

\* the capture of the fenced-array pattern (fence, optional json, "[" lazily
\* up to "]", fence), whitespace aside: from the "[" directly after the
\* leftmost fence that has a match to the first "]" directly before a fence
codeBlockMatch(toks) ==
    LET Closes(p) == {q \in Positions(toks, {"]"}) :
                         q > p + 1 /\ q < Len(toks) /\ toks[q + 1] \in FenceTokens}
        starts == {p \in Positions(toks, FenceTokens) :
                      p < Len(toks) /\ toks[p + 1] = "[" /\ Closes(p) # {}}
    IN  IF starts = {} THEN [found |-> FALSE, from |-> 0, to |-> 0]
        ELSE [found |-> TRUE, from |-> Min(starts) + 1, to |-> Min(Closes(Min(starts)))]

(***************************************************************************)
(* What ai.run() settles with: a rejection, or a value of one of the       *)
(* shapes the extractor probes: a string, an object holding the text under *)
(* response, text, content or message, an object holding none of them      *)
(* (its text is then its stringification), null, or undefined.             *)
(***************************************************************************)
AiShapes == {"string", "response", "text", "content", "message", "object", "null", "undefined"}

AiValue(shape, text) == [shape |-> shape, text |-> text]

\* the text the "modes" extractor works on; <<>> stands for the empty string
responseTextOf(ai) ==
    IF ai.shape = "null" THEN <<"null">>
    ELSE IF ai.shape \in {"response", "text", "content", "message"} /\ ai.text = <<>>
    THEN <<"{oth", "num", "}">>
    ELSE ai.text

Extracted(ok, points, error) == [ok |-> ok, points |-> points, error |-> error]

ExtractionError(msg) == Extracted(FALSE, <<>>, msg)

\* the array a parsed value holds: itself, or the one it wraps under
\* pointsOfInterest or results
arrayOf(parsed) == IF parsed.k \in {"array", "{poi", "{res"} THEN parsed.items ELSE <<>>

\* strategy (a): the whole text
wholeParse(toks) == arrayOf(JSONparse(toks))

\* JSON.parse of a regular expression's match m, <<>> when there is none or
\* it does not parse
matchParse(toks, m) ==
    IF m.found THEN arrayOf(ParseRange(toks, m.from, m.to)) ELSE <<>>

\* strategy (b), in the catch of (a): the first bracketed substring
bracketParse(toks) == matchParse(toks, jsonMatch(toks))

\* strategy (c), when there is still no entry: the fenced array
codeBlockParse(toks) == matchParse(toks, codeBlockMatch(toks))

\* (c) is tried when (a) and (b) left no entry
orCodeBlock(toks, first) == IF first = <<>> THEN codeBlockParse(toks) ELSE first

parsePoints(toks) ==
    orCodeBlock(toks, IF JSONparse(toks).ok THEN wholeParse(toks) ELSE bracketParse(toks))

\* isValidPoint with the type checked against the five-value enum
isValidPointEnumOnly(point) ==
    /\ point.k = "object"
    /\ Truthy(point.description)
    /\ IsString(point.description)
    /\ TrimNonEmpty(point.description)
    /\ point.type = "enum"

\* the filter of the "modes" extractor
isValidPoint(point) ==
    /\ point.k = "object"
    /\ Truthy(point.description)
    /\ IsString(point.description)
    /\ TrimNonEmpty(point.description)
    /\ point.type \in {"enum", "other"}

\* validPoints.slice(0, n)
Slice(points, n) == SubSeq(points, 1, IF Len(points) < n THEN Len(points) ELSE n)

\* capPoints off by one
capPointsOffByOne(points) == Slice(points, MAX_POINTS_OF_INTEREST + 1)

capPoints(points) == Slice(points, MAX_POINTS_OF_INTEREST)

\* the valid points, capped; none is an error
cappedPoints(validPoints) ==
    IF validPoints = <<>>
    THEN ExtractionError(<<"No valid points of interest extracted from profile">>)
    ELSE Extracted(TRUE, capPoints(validPoints), <<>>)

\* the parsed entries, filtered; none parsed is an error
validatePoints(pointsOfInterest) ==
    IF pointsOfInterest = <<>>
    THEN ExtractionError(<<"No valid JSON array found in AI response. Response preview: ",
                           "<responseText>">>)
    ELSE cappedPoints(SelectSeq(pointsOfInterest, isValidPoint))

\* parsing and validation of the response text
extractFromText(responseText) ==
    IF responseText = <<>>
    THEN ExtractionError(<<"Workers AI returned an empty response">>)
    ELSE validatePoints(parsePoints(responseText))

\* extractCriteria of the "modes" revision, from the value ai.run() resolved to
extractCriteria(ai) ==
    IF ai.shape = "undefined"
    THEN ExtractionError(<<"TypeError: cannot read properties of undefined">>)
    ELSE extractFromText(responseTextOf(ai))

\* the largest number of criteria the "combined" and "webset" revisions keep
MaxCriteria == 5

\* the filter of the "combined" and "webset" extractors; it throws on an
\* entry whose description cannot be read or trimmed
throwsOnPoint(point) ==
    point.k = "null" \/ (point.k = "object" /\ point.description = "number")

isTruthyPoint(point) ==
    /\ point.k = "object"
    /\ Truthy(point.description)
    /\ TrimNonEmpty(point.description)
    /\ point.type \in {"enum", "other", "number"}

\* the valid points of the one-strategy extractors, capped at cap
cappedPlain(validPoints, cap) ==
    IF validPoints = <<>>
    THEN ExtractionError(<<"No valid points of interest extracted from profile">>)
    ELSE Extracted(TRUE, Slice(validPoints, cap), <<>>)

\* JSON.parse(jsonMatch[0]) and the filter
filterParsed(parsed, cap) ==
    IF ~parsed.ok
    THEN ExtractionError(<<"SyntaxError: not valid JSON">>)
    ELSE IF \E i \in 1..Len(parsed.items) : throwsOnPoint(parsed.items[i])
    THEN ExtractionError(<<"TypeError: cannot read properties of null">>)
    ELSE cappedPlain(SelectSeq(parsed.items, isTruthyPoint), cap)

\* the first bracketed substring m of the response text
extractFromMatch(responseText, m, cap) ==
    IF ~m.found
    THEN ExtractionError(<<"No JSON array found in AI response">>)
    ELSE filterParsed(ParseRange(responseText, m.from, m.to), cap)

\* response.response || JSON.stringify(response)
plainResponseText(ai) ==
    IF ai.shape = "response" /\ ai.text # <<>> THEN ai.text ELSE <<"{oth", "num", "}">>

\* extractCriteria of the "combined", "webset" and "lean" revisions: the
\* first bracketed substring only; they differ in the cap
extractCriteriaPlain(ai, cap) ==
    IF ai.shape \in {"null", "undefined"}
    THEN ExtractionError(<<"TypeError: cannot read properties of null">>)
    ELSE extractFromMatch(plainResponseText(ai), jsonMatch(plainResponseText(ai)), cap)

\* the answers of the inference service the model draws from
ArrayText(items) == <<"[">> \o items \o <<"]">>

\* every kind of entry alone, and short arrays mixing a valid entry, an
\* invalid object and a null
ShortItems ==
    {<<tok>> : tok \in EntryTokens}
    \cup UNION {[1..n -> {"pt", "nodesc", "null"}] : n \in 0..MaxArrayLen}

SimpleItems == UNION {[1..n -> {"pt", "blank"}] : n \in 0..MaxArrayLen}

\* arrays around the cap: exactly MAX_POINTS_OF_INTEREST valid entries, one
\* more, and one more with an invalid entry in front
LongItems ==
    {[i \in 1..n |-> "pt"] : n \in {MAX_POINTS_OF_INTEREST, MAX_POINTS_OF_INTEREST + 1}}
    \cup {[i \in 1..(MAX_POINTS_OF_INTEREST + 2) |-> IF i = 1 THEN "blank" ELSE "pt"]}

\* an array inside prose, fences and wrapper objects
Dressed(array) ==
    {array,
     <<"w">> \o array, array \o <<"w">>, <<"w">> \o array \o <<"w">>,
     <<"fence">> \o array \o <<"fence">>,
     <<"fencejson">> \o array \o <<"fence">>,
     <<"w", "fence">> \o array \o <<"fence", "w">>,
     <<"w", "[", "num", "]", "w", "fencejson">> \o array \o <<"fence">>,
     <<"[", "w", "]", "fence">> \o array \o <<"fence">>,
     <<"{poi">> \o array \o <<"}">>,
     <<"{res">> \o array \o <<"}">>,
     <<"{oth">> \o array \o <<"}">>,
     <<"[">> \o array \o <<"]">>}

AiTexts ==
    {ArrayText(items) : items \in ShortItems \cup LongItems}
    \cup UNION {Dressed(ArrayText(items)) : items \in SimpleItems}
    \cup {<<>>, <<"w">>, <<"null">>, <<"num">>, <<"pt">>, <<"[", "pt">>, <<"fence", "w", "fence">>}

AiValues ==
    {AiValue("response", text) : text \in AiTexts}
    \cup {AiValue(shape, text) :
             shape \in {"string", "text", "content", "message"},
             text \in {<<>>, ArrayText(<<"pt">>), <<"w">> \o ArrayText(<<"pt">>)}}
    \cup {AiValue("object", text) :
             text \in {<<"{oth", "num", "}">>, <<"{poi">> \o ArrayText(<<"pt">>) \o <<"}">>}}
    \cup {AiValue("null", <<>>), AiValue("undefined", <<>>)}

\* the answers drawn for the revisions whose extractor knows one strategy
PlainAiValues ==
    {AiValue("response", text) :
        text \in {ArrayText(items) : items \in {<<"pt">>, <<"blank">>, <<"blank", "pt">>, <<"null">>,
                                                <<"numdesc">>, <<"numtype">>, <<"pt", "pt", "pt", "pt", "pt", "pt">>}}
                 \cup {<<"w">> \o ArrayText(<<"pt">>) \o <<"w">>, <<"w">>, <<"[", "w", "]">>, <<>>}}
    \cup {AiValue("null", <<>>)}

AiValuesFor(b) ==
    IF b = "modes" THEN AiValues
    ELSE IF b = "lean"
    THEN PlainAiValues
         \cup {AiValue("response", ArrayText([i \in 1..(MAX_POINTS_OF_INTEREST + 1) |-> "pt"]))}
    ELSE PlainAiValues

(***************************************************************************)
(* The search service's answers: the results of the synchronous search and *)
(* the items of a webset job.                                              *)
(***************************************************************************)
MaxHits == 2

\* the number of profiles a response carries at most
MaxProfiles == 5

Hits == [role : BOOLEAN, headline : {"absent", "text"}, location : {"absent", "text"},
         description : {"absent", "text"}]

Items == [title : {"absent", "text"}, enrichment : {"absent", "text"}]

\* arrays of up to MaxHits arbitrary elements, and uniform arrays around the cap
ArraysOf(elements, uniform) ==
    UNION {[1..n -> elements] : n \in 0..MaxHits}
    \cup {[i \in 1..n |-> uniform] : n \in {MaxProfiles, MaxProfiles + 1}}

SearchData ==
    {NoArray("absent")}
    \cup {Array(hits) : hits \in ArraysOf(Hits, [role |-> TRUE, headline |-> "text",
                                                 location |-> "text", description |-> "text"])}

ItemsData ==
    {NoArray("absent")}
    \cup {Array(items) : items \in ArraysOf(Items, [title |-> "text", enrichment |-> "text"])}

MatchedProfile(url, title, snippet) == [url |-> url, title |-> title, snippet |-> snippet]

\* snippetOf that keeps the headline when there is a role as well
snippetOfHeadlineFirst(hit) ==
    LET first == IF hit.headline = "text" THEN <<"headline">>
                 ELSE IF hit.role THEN <<"title at company_name">> ELSE <<>>
        second == IF hit.location = "text" THEN <<" * location">> ELSE <<>>
        third == IF hit.description = "text" THEN <<" * description[0..150]...">> ELSE <<>>
        snippet == first \o second \o third
    IN  IF snippet = <<>> THEN <<"LinkedIn Professional">> ELSE snippet

\* the snippet of one search result, as the sequence of its parts
snippetOf(hit) ==
    LET first == IF hit.role THEN <<"title at company_name">>
                 ELSE IF hit.headline = "text" THEN <<"headline">> ELSE <<>>
        second == IF hit.location = "text" THEN <<" * location">> ELSE <<>>
        third == IF hit.description = "text" THEN <<" * description[0..150]...">> ELSE <<>>
        snippet == first \o second \o third
    IN  IF snippet = <<>> THEN <<"LinkedIn Professional">> ELSE snippet

\* mapResults without the slice
mapResultsUncapped(hits) ==
    [i \in 1..Len(hits) |-> MatchedProfile(i, <<"name">>, snippetOf(hits[i]))]

\* data.results.slice(0, 5).map(...)
mapResults(hits) ==
    [i \in 1..Len(Slice(hits, MaxProfiles)) |-> MatchedProfile(i, <<"name">>, snippetOf(hits[i]))]

\* itemsData.items.slice(0, 5).map(...)
mapItems(items) ==
    [i \in 1..Len(Slice(items, MaxProfiles)) |->
        MatchedProfile(i,
                       IF items[i].title = "text" THEN <<"title">> ELSE <<"LinkedIn Profile">>,
                       IF items[i].enrichment = "text" THEN <<"enrichments[0].value">>
                       ELSE <<"Professional profile">>)]

\* the webset job as the poll loop holds it: status, attempts, and the found
\* count of the last status read (-1 before the first poll and when the read
\* carries no progress); elapsed is the time in ms since the loop was entered
maxAttempts == 20

\* the wait between two status checks, in ms
pollIntervalMs == 3000

\* a status request answers at once or after SlowPollMs; at most MaxSlowPolls
\* of the requests of one job are slow
SlowPollMs == 1000

MaxSlowPolls == 1

minAttempts == 15

minFound == 3

JobStatuses == {"created", "running", "idle"}

FoundValues == {-1, 0, 1, 3}

Job(status, attempts, found, elapsed) ==
    [status |-> status, attempts |-> attempts, found |-> found, elapsed |-> elapsed]

NoJob == Job("none", 0, -1, 0)

\* how long the status request in flight may take
PollDurations(j) ==
    {0} \cup {ms \in {SlowPollMs} :
                 j.elapsed - pollIntervalMs * (j.attempts + 1) < MaxSlowPolls * SlowPollMs}

(***************************************************************************)
(* What an external HTTP call comes to: the fetch rejects (a transport     *)
(* error), or it resolves with a status and, when the status is 2xx, data. *)
(***************************************************************************)
Rejected == [how |-> "reject", status |-> 0]

Failed(status) == [how |-> "resolve", status |-> status]

NonOkStatuses == {st \in UpstreamStatuses : ~Ok(st)}

CrawlOutcomes ==
    {[how |-> o.how, status |-> o.status, data |-> [context |-> "absent", results |-> NoArray("absent")]] :
        o \in {Rejected} \cup {Failed(st) : st \in NonOkStatuses}}
    \cup {[how |-> "resolve", status |-> 200, data |-> d] : d \in CrawlData}

SearchOutcomes ==
    {[how |-> o.how, status |-> o.status, data |-> NoArray("absent")] :
        o \in {Rejected} \cup {Failed(st) : st \in NonOkStatuses}}
    \cup {[how |-> "resolve", status |-> 200, data |-> d] : d \in SearchData}

ItemsOutcomes ==
    {[how |-> o.how, status |-> o.status, data |-> NoArray("absent")] :
        o \in {Rejected} \cup {Failed(st) : st \in NonOkStatuses}}
    \cup {[how |-> "resolve", status |-> 200, data |-> d] : d \in ItemsData}

\* the answer to the creation of a webset carries the job's status, the
\* answer to a poll its status and, when it carries progress, the found count
JobOutcomes ==
    {[how |-> o.how, status |-> o.status, job |-> "none", found |-> -1] :
        o \in {Rejected} \cup {Failed(st) : st \in NonOkStatuses}}
    \cup {[how |-> "resolve", status |-> 200, job |-> j, found |-> f] :
             j \in JobStatuses, f \in FoundValues}

AiOutcomes(b) ==
    {[how |-> "reject", value |-> AiValue("undefined", <<>>)]}
    \cup {[how |-> "resolve", value |-> v] : v \in AiValuesFor(b)}

SettledAs(out) == IF out.how = "reject" THEN "rejected" ELSE "resolved"

\* how an HTTP call ended
HttpResult(out) ==
    IF out.how = "reject" THEN "transport-error"
    ELSE IF Ok(out.status) THEN "ok" ELSE "http-error"

\* how ai.run() ended
AiResult(out) == IF out.how = "reject" THEN "transport-error" ELSE "ok"

(***************************************************************************)
(* State.  received is the upstream answer a function is working on, the   *)
(* local `data` of the crawler or `aiResponse` of the extractor; it lives  *)
(* from the settling of the call to the function's return, that is, within *)
(* one step of the handler, and holds no answer in between.  parked is the  *)
(* frame of a second invocation of the handler that is suspended at an     *)
(* await while this one runs; a worker that handles one request at a time  *)
(* has none.                                                               *)
(***************************************************************************)
Answer(for, out) == [for |-> for, out |-> out]

NoAnswer == Answer("none", Rejected)

\* the locals of one invocation of the handler
FrameOf(req, at, calls, text, crit, j, resps, answer) ==
    [request |-> req, pc |-> at, ops |-> calls, markdown |-> text, criteria |-> crit,
     job |-> j, responses |-> resps, received |-> answer]

NoFrame == FrameOf(NoRequest, "none", <<>>, NoText, <<>>, NoJob, <<>>, NoAnswer)

\* the state of the frontend's App component: no request of its in flight
\* a request of the component in flight.  Of the points of a match request
\* the members are kept and not their order: neither the worker's checks nor
\* the profiles found depend on it.
NoCall == [to |-> "none", url |-> "none", stage |-> "none", elapsed |-> 0,
           goal |-> "absent", points |-> {}]

\* the profiles of a match response as the component keeps them: what a
\* profile says depends on the points it was searched for
Matches(points, profiles) ==
    [i \in 1..Len(profiles) |-> [url |-> profiles[i].url, for |-> points]]

NoMatches == <<>>

NoUi ==
    [dreamGoal |-> "empty", urlError |-> "none", error |-> <<>>,
     analyzing |-> FALSE, matching |-> FALSE, criteria |-> NoArray("null"),
     selectedPoints |-> <<>>, matchedProfiles |-> NoMatches,
     analyze |-> NoCall, match |-> NoCall]

Init ==
    /\ build \in Builds
    /\ env \in EnvsFor(build)
    /\ request = NoRequest
    /\ pc = "idle"
    /\ ops = <<>>
    /\ markdown = NoText
    /\ criteria = <<>>
    /\ job = NoJob
    /\ responses = <<>>
    /\ received = NoAnswer
    /\ parked = NoFrame
    /\ log = {}
    /\ ui = NoUi

CurrentOp == ops[Len(ops)]

SetCurrent(op) == [ops EXCEPT ![Len(ops)] = op]

\* the handler returns a response; its locals die with it
Complete(response) ==
    /\ responses' = Append(responses, response)
    /\ pc' = "done"
    /\ markdown' = NoText
    /\ criteria' = <<>>
    /\ job' = NoJob

\* the catch of the handler: { error: error.message } with status 500
Catch(msg) == Complete(ErrorResponse(500, msg))

crawlCallOf(b) ==
    IF b = "modes" THEN CrawlCall
    ELSE IF b = "lean" THEN LeanCrawlCall
    ELSE BareCall("crawl")

inferenceCallOf(b) ==
    IF b = "modes" THEN InferenceCall
    ELSE IF b = "lean" THEN LeanInferenceCall
    ELSE BareCall("inference")

searchCallOf(b) == IF b = "modes" THEN SearchCall ELSE LeanSearchCall

\* the dispatcher of each revision
fetchOf(b, req, e) ==
    IF b = "modes" THEN modesFetch(req, e)
    ELSE IF b = "lean" THEN leanFetch(req, e)
    ELSE plainFetch(req)

\* the user data in a parsed body
PayloadData(body) ==
    {f \in {"linkedinUrl", "careerGoal"} : body[f] # "absent"}
    \cup {f \in {"selectedPoints"} : body.selectedPoints.k # "absent"}

\* the match branch got past its validation, to findMatchingProfiles
matchValidated(b, req, e) ==
    /\ b \in ModeBuilds
    /\ req.method = "POST"
    /\ req.body.json = "object"
    /\ req.body.mode = "match"
    /\ \/ fetchOf(b, req, e).act = "search"
       \/ /\ fetchOf(b, req, e).act = "respond"
          /\ fetchOf(b, req, e).response.body.error \in
                {<<"TypeError: cannot read properties of null">>, <<"Clado API key is missing">>}

\* the user data fetch writes to the console up to its first external call:
\* the parsed payload, the goal and the points of a match request, the url
\* (and the goal) of a request that is crawled
fetchLog(b, req, e) ==
    (IF b = "modes" /\ req.method = "POST" /\ e.EXA_API_KEY /\ e.AI /\ req.body.json # "invalid"
     THEN PayloadData(req.body) ELSE {})
    \cup (IF matchValidated(b, req, e) THEN {"careerGoal", "selectedPoints"} ELSE {})
    \cup (IF fetchOf(b, req, e).act = "crawl" /\ b # "webset" THEN {"linkedinUrl"} ELSE {})
    \cup (IF fetchOf(b, req, e).act = "crawl" /\ b = "combined" THEN {"careerGoal"} ELSE {})

\* fetch(request, env) up to its first external call
Fetch ==
    /\ pc = "idle"
    /\ \E req \in RequestsFor(build) :
          LET o == fetchOf(build, req, env)
          IN  /\ request' = req
              /\ log' = log \cup fetchLog(build, req, env)
              /\ CASE o.act = "respond" ->
                        /\ ops' = ops
                        /\ Complete(o.response)
                   [] o.act = "crawl" ->
                        /\ ops' = Append(ops, crawlCallOf(build))
                        /\ pc' = "crawl"
                        /\ UNCHANGED <<markdown, criteria, job, responses>>
                   [] o.act = "search" ->
                        /\ ops' = Append(ops, searchCallOf(build))
                        /\ pc' = "search"
                        /\ criteria' = Slice(req.body.selectedPoints.items, MAX_SELECTED_POINTS)
                        /\ UNCHANGED <<markdown, job, responses>>
    /\ UNCHANGED <<build, env, received, parked, ui>>

\* crawlError without the check for an answer that holds no text
crawlErrorLenient(b, out, text) ==
    IF out.how = "reject" THEN <<"fetch failed">>
    ELSE IF ~Ok(out.status) THEN <<"Exa API error: ", ToString(out.status), " - ", "<body>">>
    ELSE <<>>

\* the error crawlLinkedInProfile throws on an answer, <<>> when it returns
crawlError(b, out, text) ==
    IF out.how = "reject" THEN <<"fetch failed">>
    ELSE IF ~Ok(out.status) THEN <<"Exa API error: ", ToString(out.status), " - ", "<body>">>
    ELSE IF b = "modes" /\ ~NonBlank(text)
    THEN <<"Failed to crawl LinkedIn profile: No text content returned. Response structure: ", "<keys>">>
    ELSE IF b # "modes" /\ text = NoText THEN <<"Failed to crawl LinkedIn profile">>
    ELSE <<>>

\* CrawlSettle with one retry: a crawl that failed is issued a second time
CrawlSettleRetry ==
    /\ pc = "crawl"
    /\ \E out \in CrawlOutcomes :
          LET op == SettleOp(CurrentOp, SettledAs(out), HttpResult(out))
              text == IF build = "modes" THEN primaryText(out.data) ELSE firstResultText(out.data)
              err == crawlError(build, out, text)
          IN  IF err # <<>> /\ Len(ops) = 1
              THEN /\ ops' = Append(SetCurrent(op), crawlCallOf(build))
                   /\ UNCHANGED <<pc, markdown, criteria, job, responses, log>>
              ELSE IF err # <<>>
              THEN /\ ops' = SetCurrent(op)
                   /\ Catch(IF build = "modes" THEN Wrap("Failed to crawl LinkedIn profile: ", err)
                            ELSE err)
                   /\ log' = log
              ELSE /\ ops' = Append(SetCurrent(op), inferenceCallOf(build))
                   /\ pc' = "ai"
                   /\ markdown' = text
                   /\ log' = log \cup {"markdown"}
                   /\ UNCHANGED <<criteria, job, responses>>
    /\ UNCHANGED <<build, env, request, received, parked, ui>>

\* the crawl settles; crawlLinkedInProfile picks the text and extractCriteria
\* starts the inference
crawlSettled(out) ==
    LET op == SettleOp(CurrentOp, SettledAs(out), HttpResult(out))
        text == IF build = "modes" THEN primaryText(out.data) ELSE firstResultText(out.data)
        err == crawlError(build, out, text)
    IN  IF err # <<>>
        THEN /\ ops' = SetCurrent(op)
             /\ Catch(IF build = "modes" THEN Wrap("Failed to crawl LinkedIn profile: ", err)
                      ELSE err)
             /\ log' = log
        ELSE /\ ops' = Append(SetCurrent(op), inferenceCallOf(build))
             /\ pc' = "ai"
             /\ markdown' = text
             /\ log' = log \cup {"markdown"}
             /\ UNCHANGED <<criteria, job, responses>>

CrawlSettle ==
    /\ pc = "crawl"
    /\ \E out \in CrawlOutcomes : crawlSettled(out)
    /\ UNCHANGED <<build, env, request, received, parked, ui>>

\* the timer of the crawl's fetchWithTimeout fires first
CrawlTimeout ==
    /\ pc = "crawl"
    /\ CurrentOp.timer = "armed"
    /\ ops' = SetCurrent(AbortOp(CurrentOp))
    /\ Catch(IF build = "modes"
             THEN Wrap("Failed to crawl LinkedIn profile: ", timeoutError(CurrentOp))
             ELSE timeoutError(CurrentOp))
    /\ UNCHANGED <<build, env, request, received, parked, log, ui>>

ExtractPrefix == "Failed to extract points of interest from LinkedIn profile: "

HighlightsPrefix == "Failed to extract career highlights: "

\* the catch of extractCriteria wraps what was thrown inside its try
wrapExtraction(r) == IF r.ok THEN r ELSE ExtractionError(Wrap(ExtractPrefix, r.error))

\* what extractCriteria comes to once ai.run() has settled
extractionOf(b, out) ==
    IF out.how = "reject"
    THEN ExtractionError(IF b = "modes" THEN Wrap(ExtractPrefix, <<"inference failed">>)
                         ELSE <<"inference failed">>)
    ELSE wrapExtraction(IF b = "modes" THEN extractCriteria(out.value)
                        ELSE IF b = "lean"
                        THEN extractCriteriaPlain(out.value, MAX_POINTS_OF_INTEREST)
                        ELSE extractCriteriaPlain(out.value, MaxCriteria))

\* the handler after extractCriteria came to r: the "modes" handler answers,
\* the others go on to the search
afterExtraction(op, r) ==
    IF ~r.ok
    THEN /\ ops' = SetCurrent(op)
         /\ Catch(IF build = "modes" THEN Wrap(HighlightsPrefix, r.error) ELSE r.error)
         /\ log' = log
    ELSE IF build \in ModeBuilds
    THEN /\ ops' = SetCurrent(op)
         /\ Complete(CriteriaResponse(r.points))
         /\ log' = log
    ELSE /\ ops' = Append(SetCurrent(op),
                          BareCall(IF build = "combined" THEN "search" ELSE "create"))
         /\ pc' = IF build = "combined" THEN "search" ELSE "create"
         /\ criteria' = r.points
         /\ log' = log \cup {"careerGoal"}
         /\ UNCHANGED <<markdown, job, responses>>

\* the inference settles; extractCriteria parses and validates
aiSettled(out) ==
    afterExtraction(SettleOp(CurrentOp, SettledAs(out), AiResult(out)), extractionOf(build, out))

AiSettle ==
    /\ pc = "ai"
    /\ \E out \in AiOutcomes(build) : aiSettled(out)
    /\ UNCHANGED <<build, env, request, received, parked, ui>>

\* the timer of the inference's withTimeout fires first: the race rejects
\* with the timeout message, ai.run() keeps running
AiTimeout ==
    /\ pc = "ai"
    /\ CurrentOp.timer = "armed"
    /\ ops' = SetCurrent(OutrunOp(CurrentOp))
    /\ Catch(IF build = "modes"
             THEN Wrap(HighlightsPrefix, Wrap(ExtractPrefix, timeoutError(CurrentOp)))
             ELSE timeoutError(CurrentOp))
    /\ UNCHANGED <<build, env, request, received, parked, log, ui>>

\* AiLateSettle whose late result is answered as well
AiLateSettleResponds ==
    /\ \E i \in InFlight, how \in {"resolved", "rejected"} :
          /\ ops[i].guard = "withTimeout"
          /\ ops[i].timer = "fired"
          /\ ops' = [ops EXCEPT ![i].state = how]
          /\ responses' = Append(responses, IF how = "resolved" THEN CriteriaResponse(<<>>)
                                            ELSE ErrorResponse(500, <<"inference failed">>))
    /\ UNCHANGED <<build, env, request, received, parked, log, pc, markdown, criteria, job, ui>>

\* ai.run() settles after its race was lost: nobody awaits it any more
AiLateSettle ==
    /\ \E i \in InFlight, how \in {"resolved", "rejected"} :
          /\ ops[i].guard = "withTimeout"
          /\ ops[i].timer = "fired"
          /\ ops' = [ops EXCEPT ![i].state = how]
    /\ UNCHANGED <<build, env, request, received, parked, log, pc, markdown, criteria, job, responses, ui>>

\* the error findMatchingProfiles throws on the search's answer, <<>> when it returns
searchError(b, out) ==
    IF out.how = "reject" THEN <<"fetch failed">>
    ELSE IF ~Ok(out.status)
    THEN IF b = "combined"
         THEN <<"Clado API error: ", ToString(out.status), " - ", "<body>">>
         ELSE IF out.status = 401
         THEN <<"Clado API authentication failed. Please check your API key. Keys should start with lk_">>
         ELSE IF out.status = 429
         THEN <<"Clado API rate limit exceeded. Please try again later">>
         ELSE <<"Clado API error (", ToString(out.status), "): ", "<body>">>
    ELSE IF b = "combined" /\ out.data.k # "array"
    THEN <<"TypeError: cannot read properties of undefined">>
    ELSE <<>>

\* the answer of a revision that runs the whole pipeline in one request
BothResponse(points, profiles) == Response(200, JsonHeaders, "criteria+matchedProfiles", <<>>, points, profiles)

\* the synchronous search settles; findMatchingProfiles maps the results
searchSettled(out) ==
    LET err == searchError(build, out)
        profiles == mapResults(out.data.items)
    IN  /\ ops' = SetCurrent(SettleOp(CurrentOp, SettledAs(out), HttpResult(out)))
        /\ IF err # <<>> THEN Catch(err)
           ELSE IF build = "combined" THEN Complete(BothResponse(criteria, profiles))
           ELSE Complete(MatchResponse(profiles))

SearchSettle ==
    /\ pc = "search"
    /\ \E out \in SearchOutcomes : searchSettled(out)
    /\ UNCHANGED <<build, env, request, received, parked, log, ui>>

\* the timer of the search's fetchWithTimeout fires first
SearchTimeout ==
    /\ pc = "search"
    /\ CurrentOp.timer = "armed"
    /\ ops' = SetCurrent(AbortOp(CurrentOp))
    /\ Catch(timeoutError(CurrentOp))
    /\ UNCHANGED <<build, env, request, received, parked, log, ui>>

\* pollsAgain without the limit on the attempts
pollsAgainUnbounded(j) ==
    /\ ~(j.attempts >= minAttempts /\ j.found >= minFound)
    /\ j.status # "idle"

\* pollsAgain without the early exit
pollsAgainToTheEnd(j) ==
    /\ j.status # "idle"
    /\ j.attempts < maxAttempts

\* pollsAgain that does not look at the status
pollsAgainWhileAttemptsLeft(j) ==
    /\ ~(j.attempts >= minAttempts /\ j.found >= minFound)
    /\ j.attempts < maxAttempts

\* the loop goes round again: not idle, attempts left, no early exit
pollsAgain(j) ==
    /\ ~(j.attempts >= minAttempts /\ j.found >= minFound)
    /\ j.status # "idle"
    /\ j.attempts < maxAttempts

\* the webset is created: the loop condition, read with the status of the
\* creation and no attempt made, decides between the poll loop and the items
CreateSettle ==
    /\ pc = "create"
    /\ \E out \in JobOutcomes :
          LET op == SettleOp(CurrentOp, SettledAs(out), HttpResult(out))
          IN  IF out.how = "reject"
              THEN ops' = SetCurrent(op) /\ Catch(<<"fetch failed">>)
              ELSE IF ~Ok(out.status)
              THEN /\ ops' = SetCurrent(op)
                   /\ Catch(<<"Exa webset creation error: ", ToString(out.status), " - ", "<body>">>)
              ELSE IF pollsAgain(Job(out.job, 0, -1, 0))
              THEN /\ ops' = SetCurrent(op)
                   /\ pc' = "sleep"
                   /\ job' = Job(out.job, 0, -1, 0)
                   /\ UNCHANGED <<markdown, criteria, responses>>
              ELSE /\ ops' = Append(SetCurrent(op), BareCall("items"))
                   /\ pc' = "items"
                   /\ job' = Job(out.job, 0, -1, 0)
                   /\ UNCHANGED <<markdown, criteria, responses>>
    /\ UNCHANGED <<build, env, request, received, parked, log, ui>>

\* the three seconds between two status checks are over: the status is fetched
PollDelay ==
    /\ pc = "sleep"
    /\ ops' = Append(ops, BareCall("poll"))
    /\ pc' = "poll"
    /\ job' = [job EXCEPT !.elapsed = @ + pollIntervalMs]
    /\ UNCHANGED <<build, env, request, received, parked, log, markdown, criteria, responses, ui>>

\* timedOutEmpty that takes a read without progress for a read with results
timedOutEmptyZeroOnly(j) == j.status # "idle" /\ j.found = 0

\* timedOutEmpty asking for enough results to leave the loop early
timedOutEmptyStrict(j) == j.status # "idle" /\ j.found < minFound

\* past the loop: not idle and nothing found
timedOutEmpty(j) == j.status # "idle" /\ j.found <= 0

\* a status check settles after ms with the answer out: one more attempt,
\* then the loop's exits
pollSettled(out, ms) ==
    LET op == SettleOp(CurrentOp, SettledAs(out), HttpResult(out))
        j == Job(out.job, job.attempts + 1, out.found, job.elapsed + ms)
    IN  IF out.how = "reject"
        THEN ops' = SetCurrent(op) /\ Catch(<<"fetch failed">>)
        ELSE IF ~Ok(out.status)
        THEN /\ ops' = SetCurrent(op)
             /\ Catch(<<"Failed to check webset status: ", ToString(out.status)>>)
        ELSE IF pollsAgain(j)
        THEN /\ ops' = SetCurrent(op)
             /\ pc' = "sleep"
             /\ job' = j
             /\ UNCHANGED <<markdown, criteria, responses>>
        ELSE IF timedOutEmpty(j)
        THEN /\ ops' = SetCurrent(op)
             /\ Catch(<<"Webset processing timed out without finding any results. Try a broader search query.">>)
        ELSE /\ ops' = Append(SetCurrent(op), BareCall("items"))
             /\ pc' = "items"
             /\ job' = j
             /\ UNCHANGED <<markdown, criteria, responses>>

PollSettle ==
    /\ pc = "poll"
    /\ \E out \in JobOutcomes, ms \in PollDurations(job) : pollSettled(out, ms)
    /\ UNCHANGED <<build, env, request, received, parked, log, ui>>

\* the items arrive and are mapped to profiles
ItemsSettle ==
    /\ pc = "items"
    /\ \E out \in ItemsOutcomes :
          /\ ops' = SetCurrent(SettleOp(CurrentOp, SettledAs(out), HttpResult(out)))
          /\ IF out.how = "reject" THEN Catch(<<"fetch failed">>)
             ELSE IF ~Ok(out.status)
             THEN Catch(<<"Failed to get webset items: ", ToString(out.status), " - ", "<body>">>)
             ELSE IF out.data.k # "array"
             THEN Catch(<<"TypeError: cannot read properties of undefined">>)
             ELSE Complete(BothResponse(criteria, mapItems(out.data.items)))
    /\ UNCHANGED <<build, env, request, received, parked, log, ui>>

Next ==
    \/ Fetch
    \/ CrawlSettle
    \/ CrawlTimeout
    \/ AiSettle
    \/ AiTimeout
    \/ AiLateSettle
    \/ SearchSettle
    \/ SearchTimeout
    \/ CreateSettle
    \/ PollDelay
    \/ PollSettle
    \/ ItemsSettle

Spec == Init /\ [][Next]_vars

(***************************************************************************)
(* The crawler and the extractor applied to one upstream answer each: the  *)
(* handler of a well-formed analyze request stands at the crawl, or at the *)
(* inference after a crawl that gave text, and received holds the answer   *)
(* the call is about to settle with.  The poll loop of the webset revision *)
(* likewise: it stands at a status check, after any number of checks that  *)
(* sent it round again, and received holds the answer to the check.  The   *)
(* synchronous search likewise: the handler of a well-formed match request *)
(* (of the analyze request, in the revision that does both) stands at the  *)
(* search.                                                                 *)
(***************************************************************************)
AnalyzeRequest(b) ==
    [method |-> "POST", path |-> "/",
     body |-> ObjectBody("absent", "text", IF b \in ModeBuilds THEN "absent" ELSE "text",
                         NoArray("absent"))]

\* a match request with three points and a goal
MatchRequest ==
    [method |-> "POST", path |-> "/",
     body |-> ObjectBody("match", "absent", "text", Array(GoodPoints(MAX_SELECTED_POINTS)))]

AnswersFor(b) ==
    {Answer("crawl", out) : out \in CrawlOutcomes}
    \cup {Answer("inference", out) : out \in AiOutcomes(b)}
    \cup {Answer("poll", out) : out \in {o \in JobOutcomes : b = "webset"}}
    \cup {Answer("search", out) : out \in {o \in SearchOutcomes : b # "webset"}}

\* the job at a status check: the checks before sent the loop round again
PollingJobs ==
    {j \in {Job(st, a, f, pollIntervalMs * (a + 1)) :
               st \in JobStatuses, a \in 0..(maxAttempts - 1), f \in FoundValues} :
        /\ j.status # "idle"
        /\ j.attempts = 0 => j.found = -1
        /\ ~(j.attempts >= minAttempts /\ j.found >= minFound)}

\* the calls of a request that stands at the status check after `settled` checks
PollingOps(settled) ==
    <<SettleOp(BareCall("crawl"), "resolved", "ok"),
      SettleOp(BareCall("inference"), "resolved", "ok"),
      SettleOp(BareCall("create"), "resolved", "ok")>>
    \o [i \in 1..settled |-> SettleOp(BareCall("poll"), "resolved", "ok")]
    \o <<BareCall("poll")>>

\* what the console holds of a request that stands at the call `at`
logUpTo(b, req, e, at) ==
    fetchLog(b, req, e)
    \cup (IF at # "crawl" /\ fetchOf(b, req, e).act = "crawl" THEN {"markdown"} ELSE {})
    \cup (IF at \in {"search", "poll"} /\ b \notin ModeBuilds THEN {"careerGoal"} ELSE {})

InitAnswers ==
    /\ build \in Builds
    /\ env = [EXA_API_KEY |-> TRUE, AI |-> TRUE, CLADO_API_KEY |-> TRUE]
    /\ received \in AnswersFor(build)
    /\ request = IF received.for = "search" /\ build \in ModeBuilds
                 THEN MatchRequest ELSE AnalyzeRequest(build)
    /\ pc = CASE received.for = "crawl" -> "crawl"
              [] received.for = "inference" -> "ai"
              [] received.for = "poll" -> "poll"
              [] received.for = "search" -> "search"
    /\ job \in IF received.for = "poll" THEN PollingJobs ELSE {NoJob}
    /\ ops = CASE received.for = "crawl" -> <<crawlCallOf(build)>>
               [] received.for = "inference" ->
                    <<SettleOp(crawlCallOf(build), "resolved", "ok"), inferenceCallOf(build)>>
               [] received.for = "poll" -> PollingOps(job.attempts)
               [] received.for = "search" ->
                    IF build \in ModeBuilds THEN <<searchCallOf(build)>>
                    ELSE <<SettleOp(BareCall("crawl"), "resolved", "ok"),
                           SettleOp(BareCall("inference"), "resolved", "ok"),
                           BareCall("search")>>
    /\ markdown = IF received.for = "crawl" \/ request = MatchRequest
                  THEN NoText ELSE Text("text", "results[1].text")
    /\ criteria = IF received.for \in {"poll", "search"}
                  THEN GoodPoints(MAX_SELECTED_POINTS) ELSE <<>>
    /\ responses = <<>>
    /\ parked = NoFrame
    /\ log = logUpTo(build, request, env, received.for)
    /\ ui = NoUi

\* the crawl settles with the answer received
CrawlApply ==
    /\ pc = "crawl"
    /\ received.for = "crawl"
    /\ crawlSettled(received.out)
    /\ UNCHANGED <<build, env, request, received, parked, ui>>

\* the inference settles with the answer received
AiApply ==
    /\ pc = "ai"
    /\ received.for = "inference"
    /\ aiSettled(received.out)
    /\ UNCHANGED <<build, env, request, received, parked, ui>>

\* the status check settles with the answer received
PollApply ==
    /\ pc = "poll"
    /\ received.for = "poll"
    /\ pollSettled(received.out, 0)
    /\ UNCHANGED <<build, env, request, received, parked, log, ui>>

\* the search settles with the answer received
SearchApply ==
    /\ pc = "search"
    /\ received.for = "search"
    /\ searchSettled(received.out)
    /\ UNCHANGED <<build, env, request, received, parked, log, ui>>

NextAnswers ==
    \/ CrawlApply
    \/ AiApply
    \/ PollApply
    \/ SearchApply
    \/ ItemsSettle

SpecAnswers == InitAnswers /\ [][NextAnswers]_vars

(***************************************************************************)
(* Two invocations of the handler in one isolate.  Each stands at its      *)
(* search with the answer it is about to receive; one runs, the other is   *)
(* suspended at its await, and the runtime may resume either.  All that an *)
(* invocation holds is in its frame: the module level has the constants    *)
(* and corsHeaders, which no code assigns to.                              *)
(***************************************************************************)
\* the request of an invocation: a match request where the mode is read, the
\* one request shape elsewhere, for the profile u
PairRequest(b, u) ==
    IF b \in ModeBuilds THEN MatchRequest
    ELSE [method |-> "POST", path |-> "/",
          body |-> ObjectBody("absent", u, "text", NoArray("absent"))]

\* the criteria the invocation holds at the search: the selected points of a
\* match request, elsewhere what was extracted from the profile
ExtractedFor(b, req) ==
    IF b \in ModeBuilds THEN Slice(req.body.selectedPoints.items, MAX_SELECTED_POINTS)
    ELSE <<Pt("text", "enum", IF req.body.linkedinUrl = "text" THEN 1 ELSE 2)>>

\* answers of the search: failures, no results, results beyond the cap
PairSearchOutcomes ==
    {o \in SearchOutcomes :
        \/ o.how = "reject"
        \/ ~Ok(o.status)
        \/ o.data.k # "array"
        \/ Len(o.data.items) \in {0, MaxProfiles + 1}}

SearchFrames(b) ==
    {FrameOf(PairRequest(b, u), "search",
             IF b \in ModeBuilds THEN <<searchCallOf(b)>>
             ELSE <<SettleOp(BareCall("crawl"), "resolved", "ok"),
                    SettleOp(BareCall("inference"), "resolved", "ok"),
                    BareCall("search")>>,
             IF b \in ModeBuilds THEN NoText ELSE Text("text", "results[1].text"),
             ExtractedFor(b, PairRequest(b, u)), NoJob, <<>>, Answer("search", o)) :
        u \in IF b \in ModeBuilds THEN {"absent"} ELSE {"text", "blank"},
        o \in PairSearchOutcomes}

InitPair ==
    /\ build \in Builds \ {"webset"}
    /\ env = [EXA_API_KEY |-> TRUE, AI |-> TRUE, CLADO_API_KEY |-> TRUE]
    /\ parked \in SearchFrames(build)
    /\ \E f \in SearchFrames(build) :
          /\ request = f.request
          /\ pc = f.pc
          /\ ops = f.ops
          /\ markdown = f.markdown
          /\ criteria = f.criteria
          /\ job = f.job
          /\ responses = f.responses
          /\ received = f.received
          /\ log = logUpTo(build, f.request, env, "search")
                   \cup logUpTo(build, parked.request, env, "search")
    /\ ui = NoUi

\* Switch with criteria at module level: both invocations read and write it
SwitchSharedCriteria ==
    /\ parked.pc # "none"
    /\ parked' = FrameOf(request, pc, ops, markdown, criteria, job, responses, received)
    /\ request' = parked.request
    /\ pc' = parked.pc
    /\ ops' = parked.ops
    /\ markdown' = parked.markdown
    /\ job' = parked.job
    /\ responses' = parked.responses
    /\ received' = parked.received
    /\ UNCHANGED <<build, env, criteria, log, ui>>

\* the runtime resumes the other invocation: the frames change places
Switch ==
    /\ parked.pc # "none"
    /\ parked' = FrameOf(request, pc, ops, markdown, criteria, job, responses, received)
    /\ request' = parked.request
    /\ pc' = parked.pc
    /\ ops' = parked.ops
    /\ markdown' = parked.markdown
    /\ criteria' = parked.criteria
    /\ job' = parked.job
    /\ responses' = parked.responses
    /\ received' = parked.received
    /\ UNCHANGED <<build, env, log, ui>>

NextPair ==
    \/ SearchApply
    \/ Switch

SpecPair == InitPair /\ [][NextPair]_vars

(***************************************************************************)
(* The frontend (README.md 153-493): the App component in front of a       *)
(* worker of a revision with modes.  ui is the component's state together  *)
(* with its two requests in flight; every action is one event handler, or  *)
(* the part of a handler that runs when its request is answered.  The      *)
(* worker is the handler above: its validation decides whether a request   *)
(* is refused, its stages run one after the other, each within the         *)
(* deadline of its guard.                                                  *)
(***************************************************************************)
MAX_SELECTION == 3
ANALYZE_TIMEOUT_MS == 60000

\* what the URL field holds when the form is submitted: text that is no
\* LinkedIn URL, and the URLs of two profiles
ProfileUrls == {"linkedin.com/in/a", "linkedin.com/in/b"}

Urls == {"other"} \cup ProfileUrls

GoalKinds == {"empty", "blank", "text"}

\* the highlights the worker extracts from a profile: those of two profiles
\* differ in content
PointsOf(u) ==
    [i \in 1..(MAX_SELECTION + 1) |->
        Pt("text", "enum", IF u = "linkedin.com/in/a" THEN i ELSE MAX_SELECTION + 1 + i)]

AnalyzeCall(u) == [NoCall EXCEPT !.to = "analyze", !.url = u, !.stage = "sent"]

MatchCall(goal, points) ==
    [NoCall EXCEPT !.to = "match", !.stage = "sent", !.goal = goal,
                   !.points = {points[i] : i \in 1..Len(points)}]

\* the points of a request as an array
Listed(points) ==
    CHOOSE q \in [1..Cardinality(points) -> points] :
        \A i, j \in 1..Cardinality(points) : i < j => q[i].at < q[j].at

workerVars ==
    <<build, env, request, pc, ops, markdown, criteria, job, responses, received, parked, log>>

\* the message validateLinkedInUrl sets, "none" when the URL passes
validateLinkedInUrl(url) ==
    IF url = "empty" THEN "LinkedIn URL is required"
    ELSE IF url \notin ProfileUrls THEN "Please enter a valid LinkedIn URL"
    ELSE "none"

\* the bodies the two handlers send
analyzeRequestOf(u) ==
    [method |-> "POST", path |-> "/",
     body |-> ObjectBody("analyze", "text", "absent", NoArray("absent"))]

matchRequestOf(goal, points) ==
    [method |-> "POST", path |-> "/",
     body |-> ObjectBody("match", "absent", goal, Array(Listed(points)))]

\* errorData.error || fallback
shownError(r, fallback) == IF r.body.error = <<>> THEN <<fallback>> ELSE r.body.error

\* the URL field is filled in and the form submitted: handleAnalyzeProfile
\* up to its fetch
SubmitAnalyze ==
    /\ ~ui.analyzing
    /\ \E u \in Urls :
          IF validateLinkedInUrl(u) # "none"
          THEN ui' = [ui EXCEPT !.error = <<>>, !.urlError = validateLinkedInUrl(u)]
          ELSE ui' = [ui EXCEPT !.error = <<>>, !.urlError = "none",
                                !.analyzing = TRUE, !.analyze = AnalyzeCall(u)]
    /\ UNCHANGED workerVars

\* handleAnalyzeProfile from the response on
analyzeAnswered(r) ==
    IF ~Ok(r.status)
    THEN ui' = [ui EXCEPT !.error = shownError(r, "Failed to analyze profile"),
                          !.analyzing = FALSE, !.analyze = NoCall]
    ELSE ui' = [ui EXCEPT !.criteria = Array(r.body.points), !.matchedProfiles = NoMatches,
                          !.selectedPoints = <<>>, !.dreamGoal = "empty",
                          !.analyzing = FALSE, !.analyze = NoCall]

\* how long a guarded stage of the worker takes: it settles soon, or shortly
\* before its deadline, or its timer fires at the deadline
StageDurations(deadline) == {1000, deadline - 1000, deadline}

\* the stage of the analyze request that is running, and its guard
AnalyzeStage == IF ui.analyze.stage = "ai" THEN inferenceCallOf(build) ELSE crawlCallOf(build)

\* the durations of the running stage that end before the frontend's deadline
InTime == {d \in StageDurations(AnalyzeStage.timeoutMs) : ui.analyze.elapsed + d <= ANALYZE_TIMEOUT_MS}

\* the worker refuses the analyze request, or crawls the profile
AnalyzeCrawled ==
    /\ ui.analyze.stage = "sent"
    /\ IF fetchOf(build, analyzeRequestOf(ui.analyze.url), env).act = "respond"
       THEN analyzeAnswered(fetchOf(build, analyzeRequestOf(ui.analyze.url), env).response)
       ELSE \E d \in InTime :
               IF d = AnalyzeStage.timeoutMs
               THEN analyzeAnswered(ErrorResponse(500,
                        IF build = "modes"
                        THEN Wrap("Failed to crawl LinkedIn profile: ", timeoutError(AnalyzeStage))
                        ELSE timeoutError(AnalyzeStage)))
               ELSE ui' = [ui EXCEPT !.analyze.stage = "ai", !.analyze.elapsed = @ + d]
    /\ UNCHANGED workerVars

\* the worker extracts the highlights and answers
AnalyzeExtracted ==
    /\ ui.analyze.stage = "ai"
    /\ \E d \in InTime :
          IF d = AnalyzeStage.timeoutMs
          THEN analyzeAnswered(ErrorResponse(500,
                   IF build = "modes"
                   THEN Wrap(HighlightsPrefix, Wrap(ExtractPrefix, timeoutError(AnalyzeStage)))
                   ELSE timeoutError(AnalyzeStage)))
          ELSE analyzeAnswered(CriteriaResponse(PointsOf(ui.analyze.url)))
    /\ UNCHANGED workerVars

FrontendTimeoutMessage == "Profile analysis timed out. Please try again."

\* the timer of the frontend's fetchWithTimeout fires while a stage of the
\* worker is running: the request is aborted
AnalyzeTimeout ==
    /\ ui.analyze.to = "analyze"
    /\ InTime # StageDurations(AnalyzeStage.timeoutMs)
    /\ ui' = [ui EXCEPT !.error = <<FrontendTimeoutMessage>>,
                        !.analyzing = FALSE, !.analyze = NoCall]
    /\ UNCHANGED workerVars

isPointSelected(selected, point) == \E i \in 1..Len(selected) : selected[i] = point

Unselected(selected, point) == SelectSeq(selected, LAMBDA s : s # point)

\* togglePointSelection that selects without a limit
togglePointSelectionUnlimited(selected, point) ==
    IF isPointSelected(selected, point) THEN Unselected(selected, point)
    ELSE Append(selected, point)

\* togglePointSelection: the selection after a click on point
togglePointSelection(selected, point) ==
    IF isPointSelected(selected, point) THEN Unselected(selected, point)
    ELSE IF Len(selected) >= MAX_SELECTION THEN selected
    ELSE Append(selected, point)

\* a click on one of the highlights shown
Toggle ==
    /\ ui.criteria.k = "array"
    /\ ~ui.analyzing
    /\ \E i \in 1..Len(ui.criteria.items) :
          ui' = [ui EXCEPT !.selectedPoints = togglePointSelection(@, ui.criteria.items[i])]
    /\ UNCHANGED workerVars

\* the goal field, enabled once three points are selected
ChangeDreamGoal ==
    /\ ui.criteria.k = "array"
    /\ ~ui.matching
    /\ Len(ui.selectedPoints) = MAX_SELECTION
    /\ \E g \in GoalKinds : ui' = [ui EXCEPT !.dreamGoal = g]
    /\ UNCHANGED workerVars

\* matchFormError that lets any goal through
matchFormErrorAnyGoal(selected, goal) ==
    IF Len(selected) # MAX_SELECTION THEN <<"Please select exactly three experiences.">>
    ELSE <<>>

\* the checks of handleFindMatches: the error it sets, <<>> when it goes on
matchFormError(selected, goal) ==
    IF Len(selected) # MAX_SELECTION THEN <<"Please select exactly three experiences.">>
    ELSE IF ~TrimNonEmpty(goal) THEN <<"Please enter your dream goal.">>
    ELSE <<>>

\* handleFindMatches up to its fetch
SubmitMatch ==
    /\ ui.criteria.k = "array"
    /\ ~ui.matching
    /\ IF matchFormError(ui.selectedPoints, ui.dreamGoal) # <<>>
       THEN ui' = [ui EXCEPT !.error = matchFormError(ui.selectedPoints, ui.dreamGoal)]
       ELSE ui' = [ui EXCEPT !.error = <<>>, !.matching = TRUE,
                             !.match = MatchCall(ui.dreamGoal, ui.selectedPoints)]
    /\ UNCHANGED workerVars

\* what the worker answers to a match request it does not refuse
SearchAnswers ==
    {MatchResponse(<<>>), MatchResponse(<<MatchedProfile(1, <<"name">>, <<"headline">>)>>),
     ErrorResponse(500, timeoutError(searchCallOf(build)))}

\* handleFindMatches from the response on
matchAnswered(r) ==
    IF ~Ok(r.status)
    THEN ui' = [ui EXCEPT !.error = shownError(r, "Failed to find matches"),
                          !.matching = FALSE, !.match = NoCall]
    ELSE ui' = [ui EXCEPT !.matchedProfiles = Matches(ui.match.points, r.body.profiles),
                          !.matching = FALSE, !.match = NoCall]

\* the worker answers the match request
MatchAnswered ==
    /\ ui.match.to = "match"
    /\ IF fetchOf(build, matchRequestOf(ui.match.goal, ui.match.points), env).act = "respond"
       THEN matchAnswered(fetchOf(build, matchRequestOf(ui.match.goal, ui.match.points), env).response)
       ELSE \E r \in SearchAnswers : matchAnswered(r)
    /\ UNCHANGED workerVars

InitFrontend ==
    /\ build \in ModeBuilds
    /\ env = [EXA_API_KEY |-> TRUE, AI |-> TRUE, CLADO_API_KEY |-> TRUE]
    /\ request = NoRequest
    /\ pc = "idle"
    /\ ops = <<>>
    /\ markdown = NoText
    /\ criteria = <<>>
    /\ job = NoJob
    /\ responses = <<>>
    /\ received = NoAnswer
    /\ parked = NoFrame
    /\ log = {}
    /\ ui = NoUi

NextFrontend ==
    \/ SubmitAnalyze
    \/ AnalyzeCrawled
    \/ AnalyzeExtracted
    \/ AnalyzeTimeout
    \/ Toggle
    \/ ChangeDreamGoal
    \/ SubmitMatch
    \/ MatchAnswered

SpecFrontend == InitFrontend /\ [][NextFrontend]_vars

TypeOK ==
    /\ build \in Builds
    /\ pc \in {"idle", "crawl", "ai", "search", "create", "sleep", "poll", "items", "done"}
    /\ Len(responses) <= 1

(***************************************************************************)
(* Properties.                                                             *)
(***************************************************************************)
Done == pc = "done"

TheResponse == responses[1]

Configured == env.EXA_API_KEY /\ env.AI

IsMatchRequest ==
    request.method = "POST" /\ request.body.json = "object" /\ request.body.mode = "match"

IsAnalyzeRequest ==
    request.method = "POST" /\ request.body.json = "object" /\ request.body.mode # "match"

ThreeSelected ==
    request.body.selectedPoints.k = "array" /\ Len(request.body.selectedPoints.items) = 3

\* rejected as a validation failure, without any external call
Rejected400 == ops = <<>> /\ (Done => TheResponse.status = 400 /\ TheResponse.body.k = "error")

\* C1: on a configured worker, a match request whose selectedPoints is not an
\* array of exactly three entries is answered with HTTP 400, and no external
\* call is issued for it
C1_BadSelectionRejected ==
    (build = "modes" /\ Configured /\ IsMatchRequest /\ ~ThreeSelected) => Rejected400

MissingField ==
    \/ IsAnalyzeRequest /\ request.body.linkedinUrl \in {"absent", "empty"}
    \/ IsMatchRequest /\ request.body.careerGoal \in {"absent", "empty", "blank"}

\* C2 as claimed: an analyze request without linkedinUrl and a match request
\* without a non-blank careerGoal are answered with HTTP 400 and an error
\* body, and no external call is issued
C2_MissingFieldRejected == (build = "modes" /\ MissingField) => Rejected400

\* C2 as amended: the same on a worker whose EXA_API_KEY and AI binding are
\* set; when one of them is missing the answer is HTTP 500 with an error
\* body; in both cases no external call is issued
C2_MissingFieldRejectedWhenConfigured ==
    (build = "modes" /\ MissingField) =>
        /\ ops = <<>>
        /\ Done => /\ TheResponse.body.k = "error"
                   /\ TheResponse.status = IF Configured THEN 400 ELSE 500

C2_Witness ==
    /\ build = "modes" /\ Configured /\ Done
    /\ IsMatchRequest /\ request.body.careerGoal = "blank" /\ ThreeSelected
    /\ TheResponse.status = 400

\* C3: a POST whose body is not JSON, or is JSON null, is answered with HTTP
\* 400 and an error body, and no external call is issued
C3_UnparsableBodyRejected ==
    (Configured /\ request.method = "POST" /\ request.body.json \in {"invalid", "null"})
        => Rejected400

\* what the dispatcher is to validate: the body is a JSON object, an analyze
\* request carries a linkedinUrl, a match request a careerGoal and three points
ValidRequest ==
    \/ IsAnalyzeRequest /\ request.body.linkedinUrl = "text"
    \/ IsMatchRequest /\ request.body.careerGoal = "text" /\ ThreeSelected

\* C4: on a configured worker every POST ends with exactly one response: 400
\* with an error body for a validation failure, and for a valid request 200
\* with the criteria (analyze) or the matched profiles (match), or 500 with
\* the message of the failure
C4_OneResponsePerPost ==
    (build = "modes" /\ Configured /\ request.method = "POST" /\ Done) =>
        /\ Len(responses) = 1
        /\ IF ~ValidRequest
           THEN TheResponse.status = 400 /\ TheResponse.body.k = "error"
           ELSE \/ /\ TheResponse.status = 200
                   /\ TheResponse.body.k = IF IsMatchRequest THEN "matchedProfiles" ELSE "criteria"
                \/ /\ TheResponse.status = 500
                   /\ TheResponse.body.k = "error"
                   /\ TheResponse.body.error # <<>>

\* C5: a successful analyze answer carries between 1 and 10 points, each an
\* object whose description is a non-empty string
C5_CriteriaBounded ==
    (build = "modes" /\ Done /\ TheResponse.body.k = "criteria") =>
        /\ Len(TheResponse.body.points) >= 1
        /\ Len(TheResponse.body.points) <= 10
        /\ \A i \in 1..Len(TheResponse.body.points) :
              /\ TheResponse.body.points[i].k = "object"
              /\ TheResponse.body.points[i].description \in {"blank", "text"}

\* an answer of 12 entries, the first invalid: 11 pass the filter, 10 are returned
C5_Witness ==
    /\ build = "modes" /\ Done /\ IsAnalyzeRequest
    /\ TheResponse.status = 200 /\ TheResponse.body.k = "criteria"
    /\ Len(TheResponse.body.points) = MAX_POINTS_OF_INTEREST
    /\ TheResponse.body.points[1].at = 3

Before(i, name, result) ==
    \E j \in 1..(i - 1) : ops[j].name = name /\ ops[j].result = result

\* C6: the stages of a request run one after another: at most one external
\* call is in flight; the inference is issued only after the crawl has
\* answered successfully and yielded text; the search (or the webset) of a
\* request that extracts is issued only after the inference has answered and
\* the criteria are extracted
C6_StagesSequential ==
    /\ Cardinality(InFlight) <= 1
    /\ \A i \in Issued("inference") : Before(i, "crawl", "ok")
    /\ pc = "ai" => markdown # NoText
    /\ \A i \in Issued("search") \cup Issued("create") :
          build \notin ModeBuilds => Before(i, "inference", "ok") /\ ~Before(i, "crawl", "none")
    /\ (build \notin ModeBuilds /\ pc \in {"search", "create"}) => criteria # <<>>
    /\ \A i \in Issued("inference"), j \in Issued("search") \cup Issued("create") : i < j

C6_Witness ==
    /\ build = "combined" /\ pc = "search"
    /\ Len(ops) = 3 /\ InFlight = {3}
    /\ criteria # <<>>

Failure(result) == result \in {"http-error", "transport-error", "timeout"}

\* C7: no retries: crawl, inference, search, creation and items are issued at
\* most once per request, and a call that fails (status, deadline or
\* transport; a status poll too) is the last call of the request, which ends
\* with an error response
C7_NoRetries ==
    /\ \A name \in CallNames \ {"poll"} : Cardinality(Issued(name)) <= 1
    /\ \A i \in 1..Len(ops) :
          Failure(ops[i].result) =>
              /\ i = Len(ops)
              /\ Done
              /\ Len(responses) = 1
              /\ TheResponse.status = 500
              /\ TheResponse.body.k = "error"

\* the second status poll fails and ends the request
C7_Witness ==
    /\ build = "webset" /\ Done
    /\ Len(ops) = 5
    /\ ops[4].name = "poll" /\ ops[4].result = "ok"
    /\ ops[5].name = "poll" /\ ops[5].result = "http-error"
    /\ TheResponse.status = 500

\* C8: every external call runs under a deadline of its own
C8_EveryCallGuarded == \A i \in 1..Len(ops) : ops[i].guard # "none" /\ ops[i].timer # "none"

\* C9: when the deadline of a guarded call fires first, the request ends with
\* HTTP 500 and an error message that contains the message configured for
\* that call; for the inference it is the inference's timeout message
C9_TimeoutMessage ==
    \A i \in 1..Len(ops) :
        ops[i].timer = "fired" =>
            /\ Done
            /\ TheResponse.status = 500
            /\ TheResponse.body.k = "error"
            /\ Contains(TheResponse.body.error, ops[i].message)
            /\ ops[i].name = "inference" => Contains(TheResponse.body.error, "Workers AI request timed out")

C9_Witness ==
    /\ Done
    /\ Len(ops) = 2
    /\ ops[2].name = "inference" /\ ops[2].timer = "fired" /\ ops[2].state = "pending"
    /\ TheResponse.status = 500

\* C10: whenever the deadline of a guarded call has fired, the cancellation
\* signal of the call is set
C10_TimeoutCancels ==
    \A i \in 1..Len(ops) : ops[i].timer = "fired" => ops[i].signal = "aborted"

\* a guarded call that settled before its timer fired
SettledFirst(i) ==
    ops[i].guard # "none" /\ ops[i].result \in {"ok", "http-error", "transport-error"}

\* C11: a guarded call that settles before its deadline has its timer cleared
\* in every later state, its signal is never set, and its outcome is what the
\* guard hands on: a rejection ends the request with the call's own error in
\* the message, and no failure of such a call is reported with the timeout
\* message of its guard
C11_SettledFirstUnchanged ==
    \A i \in 1..Len(ops) :
        SettledFirst(i) =>
            /\ ops[i].timer = "cleared"
            /\ ops[i].signal # "aborted"
            /\ ops[i].state \in {"resolved", "rejected"}
            /\ ops[i].state = "rejected" <=> ops[i].result = "transport-error"
            /\ ops[i].result = "transport-error" =>
                  /\ Done /\ TheResponse.status = 500
                  /\ Contains(TheResponse.body.error,
                              IF ops[i].name = "inference" THEN "inference failed" ELSE "fetch failed")
            /\ (Done /\ TheResponse.body.k = "error" /\ i = Len(ops)) =>
                  ~Contains(TheResponse.body.error, ops[i].message)

\* the guarded inference rejects before its deadline
C11_Witness ==
    /\ Done /\ Len(ops) = 2
    /\ ops[2].guard = "withTimeout" /\ ops[2].result = "transport-error"
    /\ ops[2].timer = "cleared"
    /\ ops[1].guard = "fetchWithTimeout" /\ ops[1].result = "ok" /\ ops[1].timer = "cleared"
    /\ Contains(TheResponse.body.error, "inference failed")

\* the crawler of the "modes" revision has returned text for the answer received
Crawled == build = "modes" /\ received.for = "crawl" /\ pc = "ai"

Fields == <<"title", "text", "summary">>

\* the parts the concatenation is to hold: every field given, of every result
\* that has a field with a non-whitespace character
WantedParts(data) ==
    {p \in (1..Len(data.results.items)) \X (1..3) :
        /\ data.results.items[p[1]][Fields[p[2]]] # "absent"
        /\ \E f \in 1..3 : data.results.items[p[1]][Fields[f]] = "text"}

PartName(p) == "results[" \o ToString(p[1]) \o "]." \o Fields[p[2]]

\* text holds exactly the wanted parts, each once, result by result, and
\* within a result title, text, summary
IsConcatenation(text, data) ==
    /\ Len(text) = Cardinality(WantedParts(data))
    /\ \A k \in 1..Len(text) :
          \E p \in WantedParts(data) :
              /\ text[k].src = PartName(p)
              /\ text[k].blank = (data.results.items[p[1]][Fields[p[2]]] = "blank")
              /\ k = Cardinality({q \in WantedParts(data) :
                                     q[1] < p[1] \/ (q[1] = p[1] /\ q[2] <= p[2])})

\* C12: the text the crawler returns is the context when that is not blank;
\* else the first result's text when that is not blank; else the
\* concatenation of title, text and summary over all results
C12_TextPriority ==
    Crawled =>
        LET data == received.out.data
            n == Len(data.results.items)
        IN  IF data.context = "text"
            THEN markdown = <<[src |-> "context", blank |-> FALSE]>>
            ELSE IF n > 0 /\ data.results.items[1].text = "text"
            THEN markdown = <<[src |-> "results[1].text", blank |-> FALSE]>>
            ELSE IsConcatenation(markdown, data)

\* blank context, first result without text: the concatenation over two results
C12_Witness ==
    /\ Crawled
    /\ received.out.data.context = "blank"
    /\ Len(received.out.data.results.items) = 2
    /\ received.out.data.results.items[1].text = "absent"
    /\ received.out.data.results.items[2].text = "text"
    /\ Len(markdown) = 4

\* C13: the text handed to the extractor has a non-whitespace character, and
\* a crawl that answered successfully without such a text ends the request,
\* before any inference, with an error that names the answer's top-level keys
C13_NoBlankTextToExtractor ==
    /\ pc = "ai" => NonBlank(markdown)
    /\ (Done /\ Len(ops) = 1 /\ ops[1].name = "crawl" /\ ops[1].result = "ok") =>
          /\ TheResponse.body.k = "error"
          /\ Contains(TheResponse.body.error, "<keys>")

\* the extractor of the "modes" revision has worked on the text of the answer
\* received
Extracting ==
    /\ build = "modes" /\ received.for = "inference" /\ Done
    /\ received.out.how = "resolve"
    /\ received.out.value.shape # "undefined"
    /\ responseTextOf(received.out.value) # <<>>

TheText == responseTextOf(received.out.value)

\* the fallback chain as specified: (a), else (b), else (c), each tried when
\* the earlier ones gave no entry
ChainOf(toks) ==
    IF wholeParse(toks) # <<>> THEN wholeParse(toks)
    ELSE IF bracketParse(toks) # <<>> THEN bracketParse(toks)
    ELSE codeBlockParse(toks)

\* the request ended as the extraction r ends it
EndsAs(r) ==
    IF r.ok
    THEN TheResponse.status = 200 /\ TheResponse.body.k = "criteria" /\ TheResponse.body.points = r.points
    ELSE /\ TheResponse.status = 500 /\ TheResponse.body.k = "error"
         /\ \A k \in 1..Len(r.error) : Contains(TheResponse.body.error, r.error[k])

\* C14: the entries the extractor validates are those of the first strategy,
\* in the order whole text, bracketed substring, fenced block, that yields an
\* array with entries
C14_StrategiesInOrder == Extracting => EndsAs(validatePoints(ChainOf(TheText)))

\* the text is no JSON as a whole and holds a fence around an array whose
\* entries are all valid points
FencedValidArray(toks) ==
    /\ ~JSONparse(toks).ok
    /\ codeBlockParse(toks) # <<>>
    /\ \A k \in 1..Len(codeBlockParse(toks)) : isValidPoint(codeBlockParse(toks)[k])

\* C15: a response that is no JSON as a whole and holds a fenced array of
\* valid points is extracted successfully, with the points of the fenced array
C15_FencedArrayExtracted ==
    (Extracting /\ FencedValidArray(TheText)) =>
        /\ TheResponse.status = 200
        /\ TheResponse.body.k = "criteria"
        /\ TheResponse.body.points = Slice(codeBlockParse(TheText), MAX_POINTS_OF_INTEREST)

\* no strategy yields an array with entries
NoStrategyYields(toks) ==
    wholeParse(toks) = <<>> /\ bracketParse(toks) = <<>> /\ codeBlockParse(toks) = <<>>

\* C16: the analyze request ends with an error instead of criteria exactly
\* when no parsing strategy yields an array with entries, or no entry of the
\* array parsed passes validation
C16_FailsExactlyWhen ==
    Extracting =>
        (TheResponse.body.k = "error" <=>
            \/ NoStrategyYields(TheText)
            \/ SelectSeq(ChainOf(TheText), isValidPoint) = <<>>)

\* the positions, in the array parsed, of the entries that are objects with
\* a string description holding a non-whitespace character and a non-empty
\* string type
ValidAt(parsed) ==
    {k \in 1..Len(parsed) :
        /\ parsed[k].k = "object"
        /\ parsed[k].description = "text"
        /\ parsed[k].type \in {"enum", "other"}}

\* points is the first n entries of parsed at the positions in valid, in order
FirstOf(points, parsed, valid, n) ==
    /\ Len(points) = IF Cardinality(valid) < n THEN Cardinality(valid) ELSE n
    /\ \A j \in 1..Len(points) :
          \E k \in valid :
              /\ Cardinality({v \in valid : v <= k}) = j
              /\ points[j] = parsed[k]

\* C17: when the extractor has parsed an array, its result is the first 10,
\* in the order of the response, of the entries that are valid, unaltered;
\* a type outside the enum does not make an entry invalid
C17_FirstTenValid ==
    (Extracting /\ parsePoints(TheText) # <<>>) =>
        IF ValidAt(parsePoints(TheText)) = {}
        THEN TheResponse.body.k = "error"
        ELSE /\ TheResponse.body.k = "criteria"
             /\ FirstOf(TheResponse.body.points, parsePoints(TheText),
                        ValidAt(parsePoints(TheText)), 10)

\* twelve entries, the first invalid: the second to the eleventh are returned
C17_Witness ==
    /\ Extracting
    /\ Len(parsePoints(TheText)) = 12
    /\ Len(TheResponse.body.points) = 10
    /\ TheResponse.body.points[1] = parsePoints(TheText)[2]
    /\ TheResponse.body.points[10] = parsePoints(TheText)[11]

\* the status checks made for the request in hand
Polls == Cardinality(Issued("poll"))

\* C18: the poll loop makes at most maxAttempts status checks: every check in
\* flight or awaited is one of the first maxAttempts, the attempts counted are
\* the checks settled, and once maxAttempts are counted the loop is left
C18_AtMostMaxAttempts ==
    build = "webset" =>
        /\ Polls <= maxAttempts
        /\ job.attempts <= maxAttempts
        /\ pc = "sleep" => (job.attempts = Polls /\ job.attempts < maxAttempts)
        /\ pc = "poll" => job.attempts + 1 = Polls
        /\ job.attempts = maxAttempts => pc \notin {"sleep", "poll"}

\* the twentieth check has settled and the loop is left for the items
C18_Witness ==
    /\ build = "webset"
    /\ Polls = maxAttempts
    /\ job.attempts = maxAttempts
    /\ job.status = "running"
    /\ pc = "items"

\* C19: the time spent in the poll loop never exceeds maxAttempts waits of
\* pollIntervalMs, whatever the status requests take
C19_PollingTimeBounded ==
    build = "webset" => job.elapsed <= maxAttempts * pollIntervalMs

\* the last status read made the early exit possible
EarlyExit == job.attempts >= minAttempts /\ job.found >= minFound

\* C20: the loop is left for the items with the job not idle and attempts to
\* spare only on the early exit, the request fails for a job that timed out
\* only after maxAttempts checks, and after a status read that allows the
\* early exit no further check is waited for or made
C20_EarlyExitOnly ==
    build = "webset" =>
        /\ (pc = "items" /\ job.status # "idle" /\ job.attempts < maxAttempts) => EarlyExit
        /\ (Done /\ TheResponse.body.k = "error"
                 /\ Contains(TheResponse.body.error,
                             "Webset processing timed out without finding any results. Try a broader search query."))
               => Polls = maxAttempts
        /\ pc \in {"sleep", "poll"} => ~EarlyExit
        /\ (pc = "items" /\ EarlyExit) => (Polls = job.attempts /\ CurrentOp.name = "items")

\* the fifteenth status read reports three found for a running job: the items
\* are asked for after fifteen checks
C20_Witness ==
    /\ build = "webset"
    /\ pc = "items"
    /\ job.status = "running"
    /\ job.attempts = minAttempts
    /\ job.found = minFound
    /\ Polls = minAttempts

TimedOutMessage ==
    "Webset processing timed out without finding any results. Try a broader search query."

\* the status check that settled with the answer received was the last one
\* the loop allows, and the answer shows a job that is not idle
Exhausted ==
    /\ build = "webset"
    /\ received.for = "poll"
    /\ pc # "poll"
    /\ Polls = maxAttempts
    /\ received.out.how = "resolve"
    /\ Ok(received.out.status)
    /\ received.out.job # "idle"

\* C21: after the last status check with the job not idle, a found count of
\* zero or no progress fails the request with the timeout message and no
\* items are asked for; a found count of at least one has the items asked
\* for, once, and the items that arrive are answered as a success
C21_ExhaustedPolicy ==
    Exhausted =>
        IF received.out.found <= 0
        THEN /\ Done
             /\ TheResponse.status = 500
             /\ TheResponse.body.error = <<TimedOutMessage>>
             /\ Issued("items") = {}
        ELSE /\ Cardinality(Issued("items")) = 1
             /\ pc \in {"items", "done"}
             /\ Done => ~Contains(TheResponse.body.error, TimedOutMessage)
             /\ (Done /\ CurrentOp.result = "ok" /\ TheResponse.body.k = "error")
                   => TheResponse.body.error = <<"TypeError: cannot read properties of undefined">>

\* the twentieth check reports one found for a running job, and the items
\* that arrive are answered
C21_Witness ==
    /\ Exhausted
    /\ received.out.found = 1
    /\ Done
    /\ TheResponse.status = 200
    /\ Len(TheResponse.body.profiles) = 2

\* the twentieth check reports nothing found: the request fails
C21_WitnessEmpty ==
    /\ Exhausted
    /\ received.out.found = 0
    /\ Done
    /\ TheResponse.body.error = <<TimedOutMessage>>

\* the calls made for the job, in the order they were issued
JobCalls == {i \in 1..Len(ops) : ops[i].name \in {"create", "poll", "items"}}

\* C22: the job is created once and before any status check; the items are
\* asked for at most once, after every status check has settled and as the
\* last call of the request, and only for a job that is idle or that stopped
\* with results; a job that timed out without results gets no further call
C22_JobStateMachine ==
    build = "webset" =>
        /\ Cardinality(Issued("create")) <= 1
        /\ \A i \in Issued("create") : \A k \in Issued("poll") \cup Issued("items") : i < k
        /\ Cardinality(Issued("items")) <= 1
        /\ \A i \in Issued("items") :
              /\ i = Len(ops)
              /\ \A k \in JobCalls \ {i} : ops[k].state = "resolved" /\ ops[k].result = "ok"
        /\ pc = "items" =>
              \/ job.status = "idle"
              \/ job.found >= 1 /\ (job.attempts = maxAttempts \/ EarlyExit)
        /\ pc \in {"sleep", "poll"} => Issued("items") = {}
        /\ (Done /\ TheResponse.body.k = "error"
                 /\ Contains(TheResponse.body.error, TimedOutMessage))
               => (Issued("items") = {} /\ CurrentOp.name = "poll" /\ CurrentOp.state = "resolved")

\* the job went from created through running to idle, and its items arrived
C22_Witness ==
    /\ build = "webset"
    /\ Done
    /\ Polls = 2
    /\ Cardinality(Issued("items")) = 1
    /\ TheResponse.status = 200

\* the request was answered with a list of matched profiles
Matched == Done /\ TheResponse.body.k \in {"matchedProfiles", "criteria+matchedProfiles"}

\* C23: the matched profiles of a response are at most MaxProfiles, and the
\* i-th of them is made from the i-th result or item of the upstream answer
C23_ProfilesCapped ==
    Matched =>
        /\ Len(TheResponse.body.profiles) <= MaxProfiles
        /\ \A i \in 1..Len(TheResponse.body.profiles) : TheResponse.body.profiles[i].url = i

\* a synchronous search answered with MaxProfiles profiles
C23_Witness ==
    /\ Matched
    /\ build = "modes"
    /\ Len(TheResponse.body.profiles) = MaxProfiles

\* the items of a webset answered with MaxProfiles profiles
C23_WitnessItems ==
    /\ Matched
    /\ build = "webset"
    /\ Len(TheResponse.body.profiles) = MaxProfiles

\* the search was answered with a 2xx status and no results
NoResults ==
    /\ received.for = "search"
    /\ received.out.how = "resolve"
    /\ Ok(received.out.status)
    /\ received.out.data.items = <<>>

\* C24: a request at the search that is answered with a 2xx status and an
\* empty or absent list of results ends with a success whose matched profiles
\* are the empty list, never with an error
C24_NoResultsIsSuccess ==
    (NoResults /\ Done) =>
        /\ TheResponse.status = 200
        /\ TheResponse.body.k # "error"
        /\ TheResponse.body.profiles = <<>>

\* the last call of the request was answered with a status that is not 2xx
UpstreamRefused == Done /\ ops # <<>> /\ CurrentOp.result = "http-error"

\* C25: a request whose external call is answered with a non-2xx status
\* fails with an error whose message holds the status code and the body of
\* the answer
C25_UpstreamErrorNamesStatusAndBody ==
    UpstreamRefused =>
        /\ TheResponse.body.k = "error"
        /\ \E st \in NonOkStatuses : Contains(TheResponse.body.error, ToString(st))
        /\ Contains(TheResponse.body.error, "<body>")

\* C26: an OPTIONS request is answered with a success that carries the
\* cross-origin headers, and a request whose method is neither POST nor
\* OPTIONS is answered with 405, on any path; neither issues an external call
C26_MethodHandling ==
    Done =>
        /\ request.method = "OPTIONS" =>
              /\ TheResponse.status = 200
              /\ TheResponse.headers.cors
              /\ ops = <<>>
        /\ request.method \notin {"POST", "OPTIONS"} =>
              /\ TheResponse.status = 405
              /\ ops = <<>>

\* C27: every response carries the cross-origin headers and the content type
\* application/json
C27_HeadersOnEveryResponse ==
    \A i \in 1..Len(responses) :
        /\ responses[i].headers.cors
        /\ responses[i].headers.contentType = "application/json"

\* a POST with an object body without mode, received by a worker whose
\* bindings for the analysis are set
NoMode ==
    /\ build \in ModeBuilds
    /\ Configured
    /\ pc # "idle"
    /\ request.method = "POST"
    /\ request.body.json = "object"
    /\ request.body.mode = "absent"

C29_ModeSelectsStages ==
    (build \in ModeBuilds /\ pc # "idle") =>
        /\ IsMatchRequest => Issued("crawl") \cup Issued("inference") = {}
        /\ ~IsMatchRequest => Issued("search") = {}
        /\ Issued("create") \cup Issued("poll") \cup Issued("items") = {}

\* a match request answered from the search alone
C29_Witness ==
    /\ build \in ModeBuilds
    /\ IsMatchRequest
    /\ Done
    /\ Len(ops) = 1
    /\ ops[1].name = "search"
    /\ TheResponse.body.k = "matchedProfiles"

\* an analyze request answered from the crawl and the inference
C29_WitnessAnalyze ==
    /\ build \in ModeBuilds
    /\ IsAnalyzeRequest
    /\ Done
    /\ Len(ops) = 2
    /\ TheResponse.body.k = "criteria"

\* the response to req when it is processed alone and its search is answered
\* with out
AloneResponse(req, out) ==
    IF searchError(build, out) # <<>> THEN ErrorResponse(500, searchError(build, out))
    ELSE IF build = "combined"
    THEN BothResponse(ExtractedFor(build, req), mapResults(out.data.items))
    ELSE MatchResponse(mapResults(out.data.items))

\* what an invocation with these locals may hold, given its request and the
\* answer to its search
OwnFrame(f) ==
    IF f.pc = "done"
    THEN f.responses = <<AloneResponse(f.request, f.received.out)>>
    ELSE /\ f.pc = "search"
         /\ f.responses = <<>>
         /\ f.criteria = ExtractedFor(build, f.request)

NoDescription(point) ==
    \/ point.k # "object"
    \/ ~IsString(point.description)
    \/ point.description = "empty"

\* C31: a match request with an entry of selectedPoints that is not an object
\* or has no non-empty description never leads to a search call
C31_OnlyDescribedPointsSearched ==
    (/\ build \in ModeBuilds
     /\ IsMatchRequest
     /\ request.body.selectedPoints.k = "array"
     /\ \E i \in 1..Len(request.body.selectedPoints.items) :
            NoDescription(request.body.selectedPoints.items[i]))
        => Issued("search") = {}

\* the search was answered with a list of results and the request with the
\* profiles made from them
Searched ==
    /\ received.for = "search"
    /\ Done
    /\ TheResponse.status = 200
    /\ received.out.data.k = "array"

\* where a part stands in a snippet
Rank(part) ==
    CASE part \in {"title at company_name", "headline"} -> 1
      [] part = " * location" -> 2
      [] part = " * description[0..150]..." -> 3
      [] OTHER -> 0

\* sn is the snippet the claim describes for the result hit
SnippetFor(sn, hit) ==
    /\ sn # <<>>
    /\ sn = <<"LinkedIn Professional">> <=>
          (~hit.role /\ hit.headline = "absent" /\ hit.location = "absent"
                    /\ hit.description = "absent")
    /\ Contains(sn, "title at company_name") <=> hit.role
    /\ Contains(sn, "headline") <=> (~hit.role /\ hit.headline = "text")
    /\ Contains(sn, " * location") <=> hit.location = "text"
    /\ Contains(sn, " * description[0..150]...") <=> hit.description = "text"
    /\ \A j \in 1..Len(sn), k \in 1..Len(sn) : j < k => Rank(sn[j]) < Rank(sn[k])

\* C32: the snippet of every profile holds the role and company of its result
\* (the headline when there is no role), then the location, then the
\* truncated description, each when present; it is the placeholder exactly
\* when none is present, and is never empty
C32_SnippetAssembly ==
    Searched =>
        \A i \in 1..Len(TheResponse.body.profiles) :
            SnippetFor(TheResponse.body.profiles[i].snippet, received.out.data.items[i])

\* one result with a role, a headline, a location and a description, and one
\* with none of them
C32_Witness ==
    /\ Searched
    /\ Len(TheResponse.body.profiles) = 2
    /\ received.out.data.items[1].role /\ received.out.data.items[1].headline = "text"
    /\ Len(TheResponse.body.profiles[1].snippet) = 3
    /\ TheResponse.body.profiles[2].snippet = <<"LinkedIn Professional">>

\* what the user submitted and what was crawled for them
UserData == {"linkedinUrl", "careerGoal", "selectedPoints", "markdown"}

\* C33: the worker writes none of the submitted url, the goal, the selected
\* points and the crawled text to its console (it has no store to write to)
C33_NoUserDataLogged == log \cap UserData = {}

\* a POST with linkedinUrl and careerGoal, to a revision whose one request
\* runs the whole pipeline
BothFields ==
    /\ build \notin ModeBuilds
    /\ pc # "idle"
    /\ request.method = "POST"
    /\ request.body.json = "object"
    /\ Truthy(request.body.linkedinUrl)
    /\ Truthy(request.body.careerGoal)

CreatedIdle == build = "webset" /\ job # NoJob /\ job.attempts = 0 /\ job.status = "idle"

\* C35: a job created idle gets no status check and no delay: the items are
\* asked for right after the creation, and that is the last call of the job
C35_IdleAtCreationSkipsPolling ==
    /\ CreatedIdle =>
          /\ pc = "items"
          /\ Polls = 0
          /\ job.elapsed = 0
          /\ Cardinality(Issued("items")) = 1
          /\ Len(ops) >= 2
          /\ ops[Len(ops)].name = "items"
          /\ ops[Len(ops) - 1].name = "create"
    /\ (build = "webset" /\ Done) =>
          \A i \in Issued("create") :
              (i < Len(ops) /\ ops[i + 1].name = "items") =>
                  (Polls = 0 /\ Len(ops) = i + 1 /\ JobCalls = {i, i + 1})

\* the creation answered idle and the items are awaited
C35_Witness == CreatedIdle /\ pc = "items" /\ CurrentOp.name = "items" /\ CurrentOp.state = "pending"

\* the request of a job created idle is answered with its profiles
C35_WitnessDone ==
    /\ build = "webset"
    /\ Done
    /\ TheResponse.status = 200
    /\ Polls = 0
    /\ Cardinality(Issued("items")) = 1

\* the outcome of the guarded call i is decided: by its timer or by the call
Decided(i) == ops[i].guard # "none" /\ ops[i].timer \in {"fired", "cleared"}

\* a step leaves every decided guarded call with the timer and the outcome it
\* has, and leaves the response alone once a timer has fired
DecidedStays ==
    \A i \in 1..Len(ops) :
        Decided(i) =>
            /\ Len(ops') >= i
            /\ ops'[i].timer = ops[i].timer
            /\ ops'[i].result = ops[i].result
            /\ ops[i].timer = "fired" => responses' = responses

\* C36: the outcome of a guarded call is decided once, by the call or by its
\* timer, whichever is first: a timer that fired leaves the outcome a timeout
\* and the request answered, a call that settled first never has the outcome
\* of a timeout, no later step changes either or the response of a request
\* whose timer fired, and no request gets a second response
C36_DecidedOnce ==
    /\ [](/\ Len(responses) <= 1
          /\ \A i \in 1..Len(ops) :
                /\ ops[i].timer = "fired" => (ops[i].result = "timeout" /\ Done)
                /\ ops[i].timer = "cleared" => ops[i].result \in {"ok", "http-error", "transport-error"}
                /\ ops[i].result = "timeout" => ops[i].timer = "fired")
    /\ [][DecidedStays]_vars

\* the inference settles after its deadline fired and the request was answered
C36_Witness ==
    /\ Done
    /\ Len(responses) = 1
    /\ \E i \in 1..Len(ops) :
          /\ ops[i].guard = "withTimeout"
          /\ ops[i].timer = "fired"
          /\ ops[i].state \in {"resolved", "rejected"}
    /\ Contains(TheResponse.body.error, "Workers AI request timed out")

\* what the worker's handler makes of the match request in flight
MatchVerdict == fetchOf(build, matchRequestOf(ui.match.goal, ui.match.points), env)

\* C37: whatever was toggled and submitted, a match request in flight holds
\* exactly three points and a goal with a non-whitespace character, and the
\* worker's validation does not answer it with HTTP 400
C37_MatchRequestsPassValidation ==
    /\ Len(ui.selectedPoints) <= MAX_SELECTION
    /\ ui.match.to = "match" =>
          /\ Cardinality(ui.match.points) = MAX_SELECTION
          /\ TrimNonEmpty(ui.match.goal)
          /\ ~(MatchVerdict.act = "respond" /\ MatchVerdict.response.status = 400)

\* a match request is in flight for points selected out of the order shown,
\* and the worker goes on to the search
C37_Witness ==
    /\ ui.match.to = "match"
    /\ ui.matching
    /\ MatchVerdict.act = "search"
    /\ Len(ui.selectedPoints) = MAX_SELECTION
    /\ ui.selectedPoints[1].at > ui.selectedPoints[2].at

\* the highlights on display
ShownPoints == {ui.criteria.items[i] : i \in 1..Len(ui.criteria.items)}

\* C38: the matched profiles on display were searched for points of the
\* criteria on display, whatever the order in which an analyze request and a
\* match request in flight together are answered
C38_MatchesBelongToCriteria ==
    \A i \in 1..Len(ui.matchedProfiles) :
        ui.criteria.k = "array" /\ ui.matchedProfiles[i].for \subseteq ShownPoints

\* C39: the worker answers every analyze request, with success or with its
\* own timeout error, before the frontend's deadline of ANALYZE_TIMEOUT_MS,
\* the deadlines of its crawl and of its inference together not exceeding
\* it: the error on display is never the frontend's own timeout message
C39_WorkerAnswersBeforeFrontendDeadline == ~Contains(ui.error, FrontendTimeoutMessage)

====
